---- MODULE Spec2Model ----
(***************************************************************************)
(* Turn-based interview orchestration engine (LangGraph state graph).     *)
(* Texts are sequences of one-character strings, so that trimming, case   *)
(* folding and integer parsing are computed as the validators do.         *)
(***************************************************************************)
EXTENDS Integers, Sequences, FiniteSets, TLC

(***************************************************************************)
(* Bounds of the model                                                     *)
(***************************************************************************)
\* longest question catalog the host may configure
MaxQuestions == 2
\* largest max_followups of a question in a configured catalog
MaxFollowups == 2
\* number of invocations of one thread after the one that starts it
MaxTurns == 3
\* how many of them may come without any new input
MaxResumes == 1
\* the validators are called on the decimal strings of -MaxScale..MaxScale
MaxScale == 25
\* and on every text over AnswerChars of up to this many characters
MaxAnswerLen == 2
\* and on phone numbers of up to this many digits
MaxPhoneDigits == 16

(***************************************************************************)
(* State of one interview thread and of its host                           *)
(***************************************************************************)
VARIABLES
  config,    \* the interview config the host starts the thread with
  state,     \* the persisted InterviewState of the thread
  pc,        \* the node about to run, "END" between invocations
  analysis,  \* the two classification calls in flight inside analyzeResponse
  turn,      \* the current invocation: nodes run, calls issued, the outcome of
             \* the translate call and of the two classification calls in
             \* completion order, the categories analyzeResponse wrote, the
             \* state at its start
  host,      \* what the host has sent so far
  issued,    \* follow-up questions issued so far, per question index
  probe      \* a validator called on its own: its name, argument and result

(***************************************************************************)
(* Text primitives (JavaScript string operations used by the validators)  *)
(***************************************************************************)
LowerLetters == <<"a","b","c","d","e","f","g","h","i","j","k","l","m",
                  "n","o","p","q","r","s","t","u","v","w","x","y","z">>
UpperLetters == <<"A","B","C","D","E","F","G","H","I","J","K","L","M",
                  "N","O","P","Q","R","S","T","U","V","W","X","Y","Z">>
DigitChars == <<"0","1","2","3","4","5","6","7","8","9">>

IndexOf(c, seq) ==
  IF \E i \in 1..Len(seq) : seq[i] = c
    THEN CHOOSE i \in 1..Len(seq) : seq[i] = c /\ \A j \in 1..(i-1) : seq[j] # c
    ELSE 0

IsSpace(c) == c = " "
IsDigit(c) == IndexOf(c, DigitChars) # 0
DigitValue(c) == IndexOf(c, DigitChars) - 1

LowerChar(c) ==
  IF IndexOf(c, UpperLetters) # 0 THEN LowerLetters[IndexOf(c, UpperLetters)] ELSE c

\* String.prototype.toLowerCase
ToLowerCase(s) == [i \in 1..Len(s) |-> LowerChar(s[i])]

RECURSIVE TrimStart(_)
TrimStart(s) ==
  IF s # <<>> /\ IsSpace(Head(s)) THEN TrimStart(Tail(s)) ELSE s

RECURSIVE TrimEnd(_)
TrimEnd(s) ==
  IF s # <<>> /\ IsSpace(s[Len(s)]) THEN TrimEnd(SubSeq(s, 1, Len(s) - 1)) ELSE s

\* String.prototype.trim
Trim(s) == TrimEnd(TrimStart(s))

\* String.prototype.startsWith
StartsWith(s, p) == Len(p) <= Len(s) /\ SubSeq(s, 1, Len(p)) = p

\* String.prototype.includes
Includes(s, p) ==
  \E i \in 0..(Len(s) - Len(p)) : SubSeq(s, i + 1, i + Len(p)) = p

\* the leading run of decimal digits of s
RECURSIVE DigitPrefix(_)
DigitPrefix(s) ==
  IF s # <<>> /\ IsDigit(Head(s)) THEN <<Head(s)>> \o DigitPrefix(Tail(s)) ELSE <<>>

RECURSIVE DigitsToNat(_)
DigitsToNat(ds) ==
  IF ds = <<>> THEN 0
  ELSE 10 * DigitsToNat(SubSeq(ds, 1, Len(ds) - 1)) + DigitValue(ds[Len(ds)])

\* parseInt(s, 10): leading white space and an optional sign are skipped, the
\* digits up to the first non-digit are read; NaN when there is no digit
ParseInt(s) ==
  LET t    == TrimStart(s)
      neg  == t # <<>> /\ Head(t) = "-"
      body == IF t # <<>> /\ Head(t) \in {"-", "+"} THEN Tail(t) ELSE t
      ds   == DigitPrefix(body)
  IN IF ds = <<>> THEN [nan |-> TRUE, val |-> 0]
     ELSE [nan |-> FALSE, val |-> IF neg THEN 0 - DigitsToNat(ds) ELSE DigitsToNat(ds)]

\* Number.prototype.toString of an integer
RECURSIVE NatToString(_)
NatToString(n) ==
  IF n < 10 THEN <<DigitChars[n + 1]>>
  ELSE NatToString(n \div 10) \o <<DigitChars[(n % 10) + 1]>>

NumToString(n) == IF n < 0 THEN <<"-">> \o NatToString(0 - n) ELSE NatToString(n)

\* String.prototype.replace(/\D/g, "")
RECURSIVE StripNonDigits(_)
StripNonDigits(s) ==
  IF s = <<>> THEN <<>>
  ELSE (IF IsDigit(Head(s)) THEN <<Head(s)>> ELSE <<>>) \o StripNonDigits(Tail(s))

(***************************************************************************)
(* Format validators                                                       *)
(***************************************************************************)
\* ValidationResult: normalizedValue is <<>> when the validator sets none
Valid(v) == [isValid |-> TRUE, normalizedValue |-> v, errorMessage |-> "none"]
Invalid(msg) == [isValid |-> FALSE, normalizedValue |-> <<>>, errorMessage |-> msg]

\* mutant: the scale starts at 0
validateNumberScale_fromZero(response) ==
  LET trimmed == Trim(response)
      num     == ParseInt(trimmed)
  IN IF num.nan THEN Invalid("not a number")
     ELSE IF num.val < 0 \/ num.val > 10 THEN Invalid("out of range")
     ELSE Valid(NumToString(num.val))

validateNumberScale(response) ==
  LET trimmed == Trim(response)
      num     == ParseInt(trimmed)
  IN IF num.nan THEN Invalid("not a number")
     ELSE IF num.val < 1 \/ num.val > 10 THEN Invalid("out of range")
     ELSE Valid(NumToString(num.val))

yesVariants ==
  { <<"y","e","s">>,
    <<"y">>,
    <<"y","e","a","h">>,
    <<"y","e","p">>,
    <<"y","u","p">>,
    <<"s","u","r","e">>,
    <<"a","b","s","o","l","u","t","e","l","y">>,
    <<"d","e","f","i","n","i","t","e","l","y">>,
    <<"c","o","r","r","e","c","t">>,
    <<"a","f","f","i","r","m","a","t","i","v","e">>,
    <<"t","r","u","e">> }

noVariants ==
  { <<"n","o">>,
    <<"n">>,
    <<"n","o","p","e">>,
    <<"n","a","h">>,
    <<"n","e","g","a","t","i","v","e">>,
    <<"n","o","t"," ","r","e","a","l","l","y">>,
    <<"f","a","l","s","e">> }

validateYesNo(response) ==
  LET trimmed == ToLowerCase(Trim(response))
  IN IF trimmed \in yesVariants THEN Valid(<<"y","e","s">>)
     ELSE IF trimmed \in noVariants THEN Valid(<<"n","o">>)
     ELSE Invalid("yes or no")

\* 0-based option index, or -1 for null
parseOptionIndex(input, maxOptions) ==
  LET num == ParseInt(input)
      charCode == IF Len(input) = 1 THEN IndexOf(input[1], LowerLetters) ELSE 0
  IN IF ~num.nan /\ num.val >= 1 /\ num.val <= maxOptions THEN num.val - 1
     ELSE IF Len(input) = 1 /\ charCode >= 1 /\ charCode < 1 + maxOptions THEN charCode - 1
     ELSE 0 - 1

\* Array.prototype.find: index of the first option satisfying P, 0 when none
FindFirst(options, P(_)) ==
  IF \E i \in 1..Len(options) : P(options[i])
    THEN CHOOSE i \in 1..Len(options) :
           P(options[i]) /\ \A j \in 1..(i - 1) : ~P(options[j])
    ELSE 0

\* mutant: an index is looked for before a contained option
validateSingleSelect_indexBeforeContains(response, options) ==
  LET trimmed == ToLowerCase(Trim(response))
      IsExact(opt) == ToLowerCase(opt) = trimmed
      IsPartial(opt) == StartsWith(ToLowerCase(opt), trimmed)
                          \/ StartsWith(trimmed, ToLowerCase(opt))
      IsContained(opt) == Includes(trimmed, ToLowerCase(opt))
      exactMatch == FindFirst(options, IsExact)
      partialMatch == FindFirst(options, IsPartial)
      containsMatch == FindFirst(options, IsContained)
      indexMatch == parseOptionIndex(trimmed, Len(options))
  IN IF exactMatch # 0 /\ options[exactMatch] # <<>> THEN Valid(options[exactMatch])
     ELSE IF partialMatch # 0 /\ options[partialMatch] # <<>> THEN Valid(options[partialMatch])
     ELSE IF indexMatch # 0 - 1 /\ indexMatch < Len(options) THEN Valid(options[indexMatch + 1])
     ELSE IF containsMatch # 0 /\ options[containsMatch] # <<>> THEN Valid(options[containsMatch])
     ELSE Invalid("choose an option")

\* mutant: an answer that names an option is normalized to the answer itself
validateSingleSelect_echoesAnswer(response, options) ==
  LET trimmed == ToLowerCase(Trim(response))
      IsExact(opt) == ToLowerCase(opt) = trimmed
      IsPartial(opt) == StartsWith(ToLowerCase(opt), trimmed)
                          \/ StartsWith(trimmed, ToLowerCase(opt))
      IsContained(opt) == Includes(trimmed, ToLowerCase(opt))
      exactMatch == FindFirst(options, IsExact)
      partialMatch == FindFirst(options, IsPartial)
      containsMatch == FindFirst(options, IsContained)
      indexMatch == parseOptionIndex(trimmed, Len(options))
  IN IF exactMatch # 0 /\ options[exactMatch] # <<>> THEN Valid(trimmed)
     ELSE IF partialMatch # 0 /\ options[partialMatch] # <<>> THEN Valid(options[partialMatch])
     ELSE IF containsMatch # 0 /\ options[containsMatch] # <<>> THEN Valid(options[containsMatch])
     ELSE IF indexMatch # 0 - 1 /\ indexMatch < Len(options) THEN Valid(options[indexMatch + 1])
     ELSE Invalid("choose an option")

validateSingleSelect(response, options) ==
  LET trimmed == ToLowerCase(Trim(response))
      IsExact(opt) == ToLowerCase(opt) = trimmed
      IsPartial(opt) == StartsWith(ToLowerCase(opt), trimmed)
                          \/ StartsWith(trimmed, ToLowerCase(opt))
      IsContained(opt) == Includes(trimmed, ToLowerCase(opt))
      exactMatch == FindFirst(options, IsExact)
      partialMatch == FindFirst(options, IsPartial)
      containsMatch == FindFirst(options, IsContained)
      indexMatch == parseOptionIndex(trimmed, Len(options))
  IN \* a found option that is the empty string is falsy and falls through
     IF exactMatch # 0 /\ options[exactMatch] # <<>> THEN Valid(options[exactMatch])
     ELSE IF partialMatch # 0 /\ options[partialMatch] # <<>> THEN Valid(options[partialMatch])
     ELSE IF containsMatch # 0 /\ options[containsMatch] # <<>> THEN Valid(options[containsMatch])
     ELSE IF indexMatch # 0 - 1 /\ indexMatch < Len(options) THEN Valid(options[indexMatch + 1])
     ELSE Invalid("choose an option")

\* mutant: the country code stays in the normalized number
validatePhoneNumber_keepsCountryCode(response) ==
  LET trimmed == Trim(response)
      digits  == StripNonDigits(trimmed)
  IN IF Len(digits) >= 7 /\ Len(digits) <= 15 THEN Valid(digits)
     ELSE Invalid("phone number")

validatePhoneNumber(response) ==
  LET trimmed == Trim(response)
      digits  == StripNonDigits(trimmed)
  IN IF Len(digits) = 10 THEN Valid(digits)
     ELSE IF Len(digits) = 11 /\ StartsWith(digits, <<"1">>) THEN Valid(Tail(digits))
     ELSE IF Len(digits) >= 7 /\ Len(digits) <= 15 THEN Valid(digits)
     ELSE Invalid("phone number")

validateShortAnswer(response) ==
  LET trimmed == Trim(response)
  IN IF Len(trimmed) = 0 THEN Invalid("provide an answer") ELSE Valid(trimmed)

validateLongAnswer(response) ==
  LET trimmed == Trim(response)
  IN IF Len(trimmed) = 0 THEN Invalid("share your thoughts") ELSE Valid(trimmed)

validateResponse(response, question) ==
  CASE question.type = "number_scale" -> validateNumberScale(response)
    [] question.type = "yes_no" -> validateYesNo(response)
    [] question.type = "single_select" ->
         IF Len(question.options) = 0 THEN Invalid("no options")
         ELSE validateSingleSelect(response, question.options)
    [] question.type = "phone_number" -> validatePhoneNumber(response)
    [] question.type = "short_answer" -> validateShortAnswer(response)
    [] question.type = "long_answer" -> validateLongAnswer(response)
    [] OTHER -> validateShortAnswer(response)

(***************************************************************************)
(* Data model (state annotation of the graph)                              *)
(***************************************************************************)
\* nullable fields: None is null/undefined, Some(x) == <<x>> holds a value
None == <<>>
Some(x) == <<x>>
\* JavaScript falsiness of a nullable string: null, undefined or ""
Falsy(o) == o = None \/ o[1] = <<>>

\* a generated or canned assistant text, abstracted to the purpose it serves
Canned(tag) == <<tag>>

QuestionTypes ==
  {"number_scale", "long_answer", "short_answer", "yes_no", "single_select", "phone_number"}

Question(type, k, options) ==
  [type |-> type, text |-> Canned("text-" \o type), max_followups |-> k,
   group |-> "none", options |-> options]

AssistantMessage(content) == [role |-> "ai", content |-> content]
HumanMessage(content) == [role |-> "human", content |-> content]

\* defaults of InterviewStateAnnotation
DefaultState ==
  [interviewType |-> "null", questions |-> <<>>, llmFallback |-> FALSE,
   currentQuestionIndex |-> 0, currentFollowupCount |-> 0,
   rawResponse |-> None, translatedResponse |-> None, wasTranslated |-> FALSE,
   categories |-> None, needsReprompt |-> FALSE, repromptReason |-> "null",
   responses |-> <<>>, currentFollowups |-> <<>>, messages |-> <<>>,
   startedAt |-> "null", isComplete |-> FALSE, transcript |-> None]

\* mutant: the new messages replace the log
AddMessages_replaces(s, msgs) == [s EXCEPT !.messages = msgs]

\* messagesStateReducer: new messages are appended to the log
AddMessages(s, msgs) == [s EXCEPT !.messages = s.messages \o msgs]

\* mutant: a question with one follow-up is taken for a basic one
isBasicQuestion_upToOne(question) == question.max_followups <= 1

isBasicQuestion(question) == question.max_followups = 0

HasCurrentQuestion(s) == s.currentQuestionIndex < Len(s.questions)

\* defined when HasCurrentQuestion(s); the code returns null otherwise
getCurrentQuestion(s) == s.questions[s.currentQuestionIndex + 1]

\* mutant: the index just past the catalog still counts as a question
hasMoreQuestions_offByOne(s) == s.currentQuestionIndex <= Len(s.questions)

hasMoreQuestions(s) == s.currentQuestionIndex < Len(s.questions)

\* mutant: the budget test lets one follow-up too many through
canAskFollowup_inclusive(s) ==
  IF ~HasCurrentQuestion(s) THEN FALSE
  ELSE s.currentFollowupCount <= getCurrentQuestion(s).max_followups

canAskFollowup(s) ==
  IF ~HasCurrentQuestion(s) THEN FALSE
  ELSE s.currentFollowupCount < getCurrentQuestion(s).max_followups

\* state.categories?.hasConcerns and state.categories?.isProperResponse
CatHasConcerns(s) == s.categories # None /\ s.categories[1].hasConcerns
CatIsProper(s) == s.categories # None /\ s.categories[1].isProperResponse

(***************************************************************************)
(* Routing functions                                                       *)
(***************************************************************************)
isHumanMessage(msg) == msg.role \in {"human", "user"}

\* mutant: a started interview always goes on to translate
routeEntry_startedOnly(s) ==
  IF s.startedAt = "null" THEN "initialize" ELSE "translateIfNeeded"

routeEntry(s) ==
  IF s.startedAt = "null" THEN "initialize"
  ELSE IF s.isComplete THEN "initialize"
  ELSE IF Len(s.messages) > 0 /\ isHumanMessage(s.messages[Len(s.messages)])
    THEN "translateIfNeeded"
  ELSE "initialize"

\* mutant: the reprompt flag is not looked at
routeAfterValidate_ignoresFlag(s) == "routeByQuestionType"

\* mutant: the router stops reprompting after the host's second message
routeAfterValidate_retryLimit(s) ==
  IF s.needsReprompt /\ host.messagesSent < 2 THEN "reprompt" ELSE "routeByQuestionType"

\* mutant: an invalid answer is sent back through translation
routeAfterValidate_retranslates(s) ==
  IF s.needsReprompt THEN "translateIfNeeded" ELSE "routeByQuestionType"

routeAfterValidate(s) ==
  IF s.needsReprompt THEN "reprompt" ELSE "routeByQuestionType"

routeByQuestionType(s) ==
  IF ~HasCurrentQuestion(s) THEN "storeBasicResponse"
  ELSE IF isBasicQuestion(getCurrentQuestion(s)) THEN "storeBasicResponse"
  ELSE "analyzeResponse"

\* mutant: completeness is looked at before the concern flag
routeAfterAnalysis_properFirst(s) ==
  IF CatIsProper(s) \/ ~canAskFollowup(s) THEN
    (IF CatHasConcerns(s) /\ CatIsProper(s) THEN "respondToConcerns"
                                            ELSE "generateEmpathyForStore")
  ELSE "generateEmpathyForFollowup"

\* mutant: an exhausted follow-up budget no longer forces the store path
routeAfterAnalysis_ignoresBudget(s) ==
  IF CatHasConcerns(s) THEN "respondToConcerns"
  ELSE IF CatIsProper(s) THEN "generateEmpathyForStore"
  ELSE "generateEmpathyForFollowup"

\* mutant: a follow-up is tried whenever the budget allows one
routeAfterAnalysis_followupFirst(s) ==
  IF CatHasConcerns(s) THEN "respondToConcerns"
  ELSE IF canAskFollowup(s) THEN "generateEmpathyForFollowup"
  ELSE "generateEmpathyForStore"

routeAfterAnalysis(s) ==
  IF CatHasConcerns(s) THEN "respondToConcerns"
  ELSE IF CatIsProper(s) \/ ~canAskFollowup(s) THEN "generateEmpathyForStore"
  ELSE "generateEmpathyForFollowup"

routeAfterConcernResponse(s) == "storeAssessmentResponse"

\* mutant: the catalog length is not looked at
routeAfterStore_alwaysAsk(s) == "askQuestion"

routeAfterStore(s) ==
  IF hasMoreQuestions(s) THEN "askQuestion" ELSE "complete"

(***************************************************************************)
(* Interview configuration                                                 *)
(***************************************************************************)
\* the max_followups of a question as the JSON value the validator is given:
\* its typeof, and for a number twice its value (so that halves can be told)
JsUndefined == [type |-> "undefined", twice |-> 0]
JsHalves(h) == [type |-> "number", twice |-> h]
JsInteger(n) == JsHalves(2 * n)

\* a config of the engine as the validator is given it: every max_followups
\* of the catalogs the engine is run with is an integer number
JsonConfig(cfg) ==
  [cfg EXCEPT !.questions =
     [i \in 1..Len(cfg.questions) |->
        [cfg.questions[i] EXCEPT !.max_followups = JsInteger(@)]]]

\* index of the first question violating a rule of the loop, 0 when none
FirstBadQuestion(questions) ==
  LET Bad(q) == \/ q.type = ""
                \/ q.type \notin QuestionTypes
                \/ q.text = <<>>
                \/ q.max_followups.type # "number"
                \/ q.max_followups.twice < 0
                \/ (q.type = "single_select" /\ Len(q.options) = 0)
  IN FindFirst(questions, Bad)

\* mutant: the questions of the catalog are not looked at one by one
validateInterviewConfig_skipsQuestions(cfg) ==
  IF cfg.interview_type = "" THEN "interview_type is required"
  ELSE IF cfg.interview_type \notin {"screener", "exit"} THEN "invalid interview_type"
  ELSE IF Len(cfg.questions) = 0 THEN "questions array cannot be empty"
  ELSE "ok"

\* the error reported (the first violation found), "ok" when the config is valid
validateInterviewConfig(cfg) ==
  IF cfg.interview_type = "" THEN "interview_type is required"
  ELSE IF cfg.interview_type \notin {"screener", "exit"} THEN "invalid interview_type"
  ELSE IF Len(cfg.questions) = 0 THEN "questions array cannot be empty"
  ELSE LET i == FirstBadQuestion(cfg.questions)
       IN IF i = 0 THEN "ok"
          ELSE LET q == cfg.questions[i]
               IN IF q.type = "" THEN "type is required"
                  ELSE IF q.type \notin QuestionTypes THEN "invalid type"
                  ELSE IF q.text = <<>> THEN "text is required"
                  ELSE IF q.max_followups.type # "number" \/ q.max_followups.twice < 0
                    THEN "max_followups must be non-negative"
                  ELSE "single_select requires options"

(***************************************************************************)
(* Step handlers: each maps the state (and the outcome of its external     *)
(* call, where it makes one) to the state after its update is merged       *)
(***************************************************************************)
\* mutant: the early return for an interview already set up is missing
initializeDone_never(s) == FALSE

\* mutant: a complete interview is set up afresh
initializeDone_untilComplete(s) ==
  Len(s.questions) > 0 /\ s.startedAt # "null" /\ ~s.isComplete

\* initialize: the config is read from the state fields the input has set
initializeDone(s) == Len(s.questions) > 0 /\ s.startedAt # "null"

initializeConfig(s) ==
  [interview_type |-> s.interviewType, questions |-> s.questions,
   llm_fallback |-> s.llmFallback]

initializeThrows(s) ==
  /\ ~initializeDone(s)
  /\ \/ s.interviewType \in {"null", ""}
     \/ Len(s.questions) = 0
     \/ validateInterviewConfig(JsonConfig(initializeConfig(s))) # "ok"

initialize(s) ==
  IF initializeDone(s) THEN s
  ELSE AddMessages(
         [s EXCEPT !.currentQuestionIndex = 0, !.currentFollowupCount = 0,
                   !.responses = <<>>, !.currentFollowups = <<>>,
                   !.startedAt = "ts", !.isComplete = FALSE],
         <<AssistantMessage(Canned("welcome"))>>)

askQuestion(s) ==
  AddMessages(
    [s EXCEPT !.currentFollowupCount = 0, !.currentFollowups = <<>>,
              !.rawResponse = None, !.translatedResponse = None,
              !.wasTranslated = FALSE, !.categories = None,
              !.needsReprompt = FALSE, !.repromptReason = "null"],
    <<AssistantMessage(Canned("question"))>>)

\* content of the last human message of the log, None when there is none
getLastUserMessage(s) ==
  LET humans == {i \in 1..Len(s.messages) : s.messages[i].role = "human"}
  IN IF humans = {} THEN None
     ELSE Some(s.messages[CHOOSE i \in humans : \A j \in humans : j <= i].content)

\* mutant: a failed translate call leaves the turn without an answer
translateIfNeeded_failureDropsAnswer(s, reply) ==
  LET rawResponse == getLastUserMessage(s)
  IN IF Falsy(rawResponse) \/ (~s.llmFallback /\ ~reply.ok)
       THEN [s EXCEPT !.rawResponse = None, !.translatedResponse = None,
                      !.wasTranslated = FALSE]
     ELSE IF s.llmFallback
       THEN [s EXCEPT !.rawResponse = rawResponse, !.translatedResponse = rawResponse,
                      !.wasTranslated = FALSE]
     ELSE LET translatedText == Trim(reply.text)
          IN [s EXCEPT !.rawResponse = rawResponse,
                       !.translatedResponse = Some(translatedText),
                       !.wasTranslated =
                          (ToLowerCase(translatedText) # ToLowerCase(rawResponse[1]))]

\* reply: [ok |-> the translate call returned, text |-> the text it returned]
translateIfNeeded(s, reply) ==
  LET rawResponse == getLastUserMessage(s)
  IN IF Falsy(rawResponse)
       THEN [s EXCEPT !.rawResponse = None, !.translatedResponse = None,
                      !.wasTranslated = FALSE]
     ELSE IF s.llmFallback \/ ~reply.ok
       THEN [s EXCEPT !.rawResponse = rawResponse, !.translatedResponse = rawResponse,
                      !.wasTranslated = FALSE]
     ELSE LET translatedText == Trim(reply.text)
          IN [s EXCEPT !.rawResponse = rawResponse,
                       !.translatedResponse = Some(translatedText),
                       !.wasTranslated =
                          (ToLowerCase(translatedText) # ToLowerCase(rawResponse[1]))]

\* mutant: the reply to a follow-up question is taken as it comes
validateFormat_followupUnchecked(s) ==
  LET question == getCurrentQuestion(s)
      response == s.translatedResponse
      validationResult == validateResponse(response[1], question)
  IN IF s.currentFollowupCount > 0
       THEN [s EXCEPT !.needsReprompt = FALSE, !.repromptReason = "null"]
     ELSE IF Falsy(response)
       THEN [s EXCEPT !.needsReprompt = TRUE, !.repromptReason = "No response provided."]
     ELSE IF ~validationResult.isValid
       THEN [s EXCEPT !.needsReprompt = TRUE,
                      !.repromptReason = validationResult.errorMessage]
     ELSE [s EXCEPT !.needsReprompt = FALSE, !.repromptReason = "null",
                    !.translatedResponse =
                       IF validationResult.normalizedValue # <<>>
                         THEN Some(validationResult.normalizedValue)
                         ELSE response]

validateFormat(s) ==
  LET question == getCurrentQuestion(s)
      response == s.translatedResponse
      validationResult == validateResponse(response[1], question)
  IN IF Falsy(response)
       THEN [s EXCEPT !.needsReprompt = TRUE, !.repromptReason = "No response provided."]
     ELSE IF ~validationResult.isValid
       THEN [s EXCEPT !.needsReprompt = TRUE,
                      !.repromptReason = validationResult.errorMessage]
     ELSE [s EXCEPT !.needsReprompt = FALSE, !.repromptReason = "null",
                    !.translatedResponse =
                       IF validationResult.normalizedValue # <<>>
                         THEN Some(validationResult.normalizedValue)
                         ELSE response]

\* mutant: the reprompt flag is left set
reprompt_keepsFlag(s) ==
  AddMessages(s, <<AssistantMessage(Canned("reprompt"))>>)

reprompt(s) ==
  AddMessages([s EXCEPT !.needsReprompt = FALSE, !.repromptReason = "null"],
              <<AssistantMessage(Canned("reprompt"))>>)

\* mutant: the answer texts survive the store
ClearTurn_keepsAnswer(s) ==
  [s EXCEPT !.wasTranslated = FALSE, !.categories = None,
            !.currentFollowups = <<>>, !.currentFollowupCount = 0]

\* the fields both store steps clear
ClearTurn(s) ==
  [s EXCEPT !.rawResponse = None, !.translatedResponse = None,
            !.wasTranslated = FALSE, !.categories = None,
            !.currentFollowups = <<>>, !.currentFollowupCount = 0]

QuestionResponse(s, hadConcerns, concernType, followups) ==
  LET question == getCurrentQuestion(s)
  IN [questionIndex |-> s.currentQuestionIndex,
      questionText |-> question.text,
      questionType |-> question.type,
      group |-> question.group,
      rawAnswer |-> IF Falsy(s.rawResponse) THEN <<>> ELSE s.rawResponse[1],
      translatedAnswer |->
        IF s.wasTranslated /\ ~Falsy(s.translatedResponse)
          THEN s.translatedResponse ELSE None,
      wasTranslated |-> s.wasTranslated,
      wasSkipped |-> FALSE,
      hadConcerns |-> hadConcerns,
      concernType |-> concernType,
      followups |-> followups]

\* mutant: the new response replaces the list instead of extending it
storeBasicResponse_replaces(s) ==
  AddMessages(
    [ClearTurn(s) EXCEPT
       !.responses = <<QuestionResponse(s, FALSE, "null", <<>>)>>,
       !.currentQuestionIndex = s.currentQuestionIndex + 1],
    <<AssistantMessage(Canned("acknowledgement"))>>)

storeBasicResponse(s) ==
  AddMessages(
    [ClearTurn(s) EXCEPT
       !.responses = Append(s.responses, QuestionResponse(s, FALSE, "null", <<>>)),
       !.currentQuestionIndex = s.currentQuestionIndex + 1],
    <<AssistantMessage(Canned("acknowledgement"))>>)

\* mutant: the follow-up bookkeeping is not cleared on advancing
storeAssessmentResponse_keepsFollowups(s) ==
  [s EXCEPT
     !.responses = Append(s.responses,
        QuestionResponse(s, CatHasConcerns(s),
                         IF s.categories = None THEN "null"
                                                ELSE s.categories[1].concernType,
                         s.currentFollowups)),
     !.currentQuestionIndex = s.currentQuestionIndex + 1,
     !.rawResponse = None, !.translatedResponse = None,
     !.wasTranslated = FALSE, !.categories = None]

\* mutant: the response is built as the basic store builds it
storeAssessmentResponse_noConcernFlag(s) ==
  [ClearTurn(s) EXCEPT
     !.responses = Append(s.responses,
                          QuestionResponse(s, FALSE, "null", s.currentFollowups)),
     !.currentQuestionIndex = s.currentQuestionIndex + 1]

storeAssessmentResponse(s) ==
  [ClearTurn(s) EXCEPT
     !.responses = Append(s.responses,
        QuestionResponse(s, CatHasConcerns(s),
                         IF s.categories = None THEN "null"
                                                ELSE s.categories[1].concernType,
                         s.currentFollowups)),
     !.currentQuestionIndex = s.currentQuestionIndex + 1]

respondToConcerns(s) ==
  AddMessages(s, <<AssistantMessage(Canned("concern-response"))>>)

generateEmpathy(s) ==
  IF ~HasCurrentQuestion(s) \/ Falsy(s.translatedResponse) THEN s
  ELSE AddMessages(s, <<AssistantMessage(Canned("empathy"))>>)

generateFollowupThrows(s) == ~HasCurrentQuestion(s) \/ Falsy(s.translatedResponse)

\* mutant: the exchange is recorded without counting it
generateFollowup_uncounted(s, ok) ==
  IF s.llmFallback \/ ~ok THEN s
  ELSE AddMessages(
         [s EXCEPT !.currentFollowups =
                      Append(s.currentFollowups,
                             [question |-> Canned("followup"), answer |-> <<>>])],
         <<AssistantMessage(Canned("followup"))>>)

\* ok: the generation call returned a follow-up question
generateFollowup(s, ok) ==
  IF s.llmFallback \/ ~ok THEN s
  ELSE AddMessages(
         [s EXCEPT !.currentFollowupCount = s.currentFollowupCount + 1,
                   !.currentFollowups =
                      Append(s.currentFollowups,
                             [question |-> Canned("followup"), answer |-> <<>>])],
         <<AssistantMessage(Canned("followup"))>>)

TranscriptMessage(msg) ==
  [role |-> IF msg.role = "human" THEN "user" ELSE "assistant", content |-> msg.content]

\* mutant: every stored response is counted as a concern
complete_countsAll(s) ==
  LET closing == [role |-> "assistant", content |-> Canned("closing")]
      fullTranscript ==
        [i \in 1..Len(s.messages) |-> TranscriptMessage(s.messages[i])] \o <<closing>>
      transcript ==
        [interviewType |-> s.interviewType,
         startedAt |-> IF s.startedAt = "null" THEN "ts" ELSE s.startedAt,
         completedAt |-> "ts",
         questionCount |-> Len(s.questions),
         questionsAnswered |-> Len(s.responses),
         concernsDetected |-> Len(s.responses),
         responses |-> s.responses,
         fullTranscript |-> fullTranscript]
  IN AddMessages([s EXCEPT !.isComplete = TRUE, !.transcript = Some(transcript)],
                 <<AssistantMessage(Canned("closing"))>>)

complete(s) ==
  LET closing == [role |-> "assistant", content |-> Canned("closing")]
      fullTranscript ==
        [i \in 1..Len(s.messages) |-> TranscriptMessage(s.messages[i])] \o <<closing>>
      concernsDetected ==
        Cardinality({i \in 1..Len(s.responses) : s.responses[i].hadConcerns})
      transcript ==
        [interviewType |-> s.interviewType,
         startedAt |-> IF s.startedAt = "null" THEN "ts" ELSE s.startedAt,
         completedAt |-> "ts",
         questionCount |-> Len(s.questions),
         questionsAnswered |-> Len(s.responses),
         concernsDetected |-> concernsDetected,
         responses |-> s.responses,
         fullTranscript |-> fullTranscript]
  IN AddMessages([s EXCEPT !.isComplete = TRUE, !.transcript = Some(transcript)],
                 <<AssistantMessage(Canned("closing"))>>)

(***************************************************************************)
(* Response analysis: two classification calls issued together and joined  *)
(***************************************************************************)
DefaultCategories ==
  [hasConcerns |-> FALSE, concernType |-> "null", concernDetails |-> "null",
   isProperResponse |-> TRUE, needsMoreContext |-> FALSE]

\* mutant: a failed concern check is reported as a concern
checkConcernsAsync_failsAsConcern(reply) ==
  IF ~reply.ok
    THEN [hasConcerns |-> TRUE, concernType |-> "null", concernDetails |-> "null"]
  ELSE LET content == reply.content
           hasConcerns == content \cap {"eeoc", "incident", "outside_scope", "yes"} # {}
           concernType == IF "eeoc" \in content THEN "eeoc"
                          ELSE IF "incident" \in content THEN "incident"
                          ELSE IF "outside_scope" \in content THEN "outside_scope"
                          ELSE "null"
       IN [hasConcerns |-> hasConcerns, concernType |-> concernType,
           concernDetails |-> IF concernType = "null" THEN "null" ELSE "details"]

\* reply: [ok |-> the call returned, content |-> the key words its text contains]
checkConcernsAsync(reply) ==
  IF ~reply.ok
    THEN [hasConcerns |-> FALSE, concernType |-> "null", concernDetails |-> "null"]
  ELSE LET content == reply.content
           hasConcerns == content \cap {"eeoc", "incident", "outside_scope", "yes"} # {}
           concernType == IF "eeoc" \in content THEN "eeoc"
                          ELSE IF "incident" \in content THEN "incident"
                          ELSE IF "outside_scope" \in content THEN "outside_scope"
                          ELSE "null"
       IN [hasConcerns |-> hasConcerns, concernType |-> concernType,
           concernDetails |-> IF concernType = "null" THEN "null" ELSE "details"]

checkProperResponseAsync(reply) ==
  IF ~reply.ok THEN [isProperResponse |-> TRUE, needsMoreContext |-> FALSE]
  ELSE LET needsMoreContext == reply.content \cap {"no", "incomplete", "vague"} # {}
       IN [isProperResponse |-> ~needsMoreContext, needsMoreContext |-> needsMoreContext]

\* the categories written once both results are in
JoinCategories(concernResult, properResponseResult) ==
  [hasConcerns |-> concernResult.hasConcerns,
   concernType |-> concernResult.concernType,
   concernDetails |-> concernResult.concernDetails,
   isProperResponse |-> properResponseResult.isProperResponse,
   needsMoreContext |-> properResponseResult.needsMoreContext]

\* mutant: fallback mode does not keep analyze from issuing its calls
analyzeSkipsCalls_ignoresFallback(s) == ~HasCurrentQuestion(s)

\* analyzeResponseParallel answers at once, without any call
analyzeSkipsCalls(s) == ~HasCurrentQuestion(s) \/ s.llmFallback

analyzeResponseParallel(s, categories) == [s EXCEPT !.categories = Some(categories)]

(***************************************************************************)
(* Inputs of the bounded model                                             *)
(***************************************************************************)
\* user messages: blank, a colloquial yes, a padded number
Answers ==
  { <<" ">>, <<"Y","e","p">>, <<" ","7">> }

\* the English rendering the translate call gives a text
Rendering(raw) ==
  IF ToLowerCase(Trim(raw)) = <<"y","e","p">> THEN <<"y","e","s">> ELSE raw

\* outcomes of the translate call: it fails, or it returns the rendering
TranslateReplies(raw) ==
  {[ok |-> FALSE, text |-> <<>>], [ok |-> TRUE, text |-> Rendering(raw)]}

ConcernReplies ==
  {[ok |-> FALSE, content |-> {}], [ok |-> TRUE, content |-> {}],
   [ok |-> TRUE, content |-> {"yes"}], [ok |-> TRUE, content |-> {"eeoc"}]}

ProperReplies ==
  {[ok |-> FALSE, content |-> {}], [ok |-> TRUE, content |-> {}],
   [ok |-> TRUE, content |-> {"incomplete"}]}

\* a basic question and two assessment questions
QuestionPool ==
  << Question("yes_no", 0, <<>>),
     Question("number_scale", 1, <<>>),
     Question("long_answer", MaxFollowups, <<>>) >>

\* the catalogs of 1..MaxQuestions questions taken from the pool in cyclic order
Catalogs ==
  { [i \in 1..n |-> QuestionPool[((start + i - 2) % Len(QuestionPool)) + 1]] :
      start \in 1..Len(QuestionPool), n \in 1..MaxQuestions }

ValidConfigs ==
  [interview_type : {"screener"}, questions : Catalogs, llm_fallback : BOOLEAN]

InvalidConfigs ==
  { [interview_type |-> "screener", questions |-> <<>>, llm_fallback |-> FALSE],
    [interview_type |-> "survey", questions |-> <<Question("yes_no", 0, <<>>)>>,
     llm_fallback |-> FALSE],
    [interview_type |-> "exit", questions |-> <<Question("single_select", 0, <<>>)>>,
     llm_fallback |-> TRUE],
    [interview_type |-> "exit", questions |-> <<Question("yes_no", 0 - 1, <<>>)>>,
     llm_fallback |-> FALSE] }

Configs == ValidConfigs \cup InvalidConfigs

(***************************************************************************)
(* The engine: one invocation of the graph per input of the host           *)
(***************************************************************************)
vars == <<config, state, pc, analysis, turn, host, issued, probe>>

\* the arguments of a call: a config for the config validator, a response
\* and, for single_select, the option list for a format validator
Args(cfg, response, options) == [config |-> cfg, response |-> response, options |-> options]
NoConfig == [interview_type |-> "", questions |-> <<>>, llm_fallback |-> FALSE]
NoCall == [fn |-> "none", input |-> Args(NoConfig, <<>>, <<>>), result |-> <<>>]

IdleAnalysis == [phase |-> "idle", concern |-> None, proper |-> None]

Snapshot(s) ==
  [currentQuestionIndex |-> s.currentQuestionIndex,
   currentFollowupCount |-> s.currentFollowupCount,
   currentFollowups |-> s.currentFollowups,
   responses |-> s.responses,
   messages |-> s.messages,
   isComplete |-> s.isComplete,
   transcript |-> s.transcript]

\* a thread nobody has invoked yet
EngineIdle ==
  /\ state = DefaultState
  /\ pc = "END"
  /\ analysis = IdleAnalysis
  /\ turn = [steps |-> <<>>, calls |-> {}, failed |-> FALSE, entry |-> "none",
             checks |-> <<>>, translation |-> "none", verdict |-> None,
             before |-> Snapshot(DefaultState)]
  /\ host = [started |-> FALSE, messagesSent |-> 0, resumes |-> 0]
  /\ issued = [i \in 0..(MaxQuestions - 1) |-> 0]

Init ==
  /\ config \in Configs
  /\ EngineIdle
  /\ probe = NoCall

\* the input is merged into the state, then the entry router picks the first node
Invoke(s) ==
  /\ state' = s
  /\ pc' = routeEntry(s)
  /\ turn' = [steps |-> <<>>, calls |-> {}, failed |-> FALSE, entry |-> routeEntry(s),
              checks |-> <<>>, translation |-> "none", verdict |-> None,
             before |-> Snapshot(state)]
  /\ UNCHANGED <<config, analysis, issued, probe>>

\* startInterview: the config fields and an empty message list
StartInterview ==
  /\ pc = "END"
  /\ ~host.started
  /\ host' = [host EXCEPT !.started = TRUE]
  /\ Invoke([state EXCEPT !.interviewType = config.interview_type,
                          !.questions = config.questions,
                          !.llmFallback = config.llm_fallback])

\* sendMessage: one user message appended to the log
SendMessage ==
  /\ pc = "END"
  /\ host.started
  /\ host.messagesSent + host.resumes < MaxTurns
  /\ \E text \in Answers :
       /\ host' = [host EXCEPT !.messagesSent = host.messagesSent + 1]
       /\ Invoke(AddMessages(state, <<HumanMessage(text)>>))

\* a node ran: its update is merged and the edge out of it is followed
Step(node, s, next, calls) ==
  /\ state' = s
  /\ pc' = next
  /\ turn' = [turn EXCEPT !.steps = Append(turn.steps, node),
                          !.calls = turn.calls \cup calls,
                          !.verdict = IF node = "analyzeResponse" THEN s.categories
                                                                  ELSE turn.verdict]
  /\ UNCHANGED <<config, host, probe>>

\* a node threw: the invocation ends with an error, the node writes nothing
Throw(node) ==
  /\ pc' = "END"
  /\ turn' = [turn EXCEPT !.steps = Append(turn.steps, node), !.failed = TRUE]
  /\ UNCHANGED <<config, state, host, analysis, issued, probe>>

\* the language-service calls a text-generating node issues
GenerationCalls(purpose) == IF state.llmFallback THEN {} ELSE {purpose}

Initialize ==
  /\ pc = "initialize"
  /\ IF initializeThrows(state) THEN Throw("initialize")
     ELSE /\ Step("initialize", initialize(state), "askQuestion",
                  IF initializeDone(state) THEN {} ELSE GenerationCalls("welcome"))
          /\ UNCHANGED <<analysis, issued>>

AskQuestion ==
  /\ pc = "askQuestion"
  /\ IF ~HasCurrentQuestion(state) THEN Throw("askQuestion")
     ELSE /\ Step("askQuestion", askQuestion(state), "END", GenerationCalls("ask"))
          /\ UNCHANGED <<analysis, issued>>

TranslateIfNeeded ==
  /\ pc = "translateIfNeeded"
  /\ LET raw == getLastUserMessage(state)
         called == ~Falsy(raw) /\ ~state.llmFallback
     IN \E reply \in (IF called THEN TranslateReplies(raw[1])
                                ELSE {[ok |-> FALSE, text |-> <<>>]}) :
          /\ state' = translateIfNeeded(state, reply)
          /\ pc' = "validateFormat"
          /\ turn' = [turn EXCEPT
                        !.steps = Append(turn.steps, "translateIfNeeded"),
                        !.calls = turn.calls \cup (IF called THEN {"translate"} ELSE {}),
                        !.translation = IF ~called THEN "skipped"
                                        ELSE IF reply.ok THEN "returned" ELSE "failed"]
  /\ UNCHANGED <<config, host, probe, analysis, issued>>

ValidateFormat ==
  /\ pc = "validateFormat"
  /\ IF ~HasCurrentQuestion(state) THEN Throw("validateFormat")
     ELSE /\ Step("validateFormat", validateFormat(state),
                  routeAfterValidate(validateFormat(state)), {})
          /\ UNCHANGED <<analysis, issued>>

Reprompt ==
  /\ pc = "reprompt"
  /\ IF ~HasCurrentQuestion(state) THEN Throw("reprompt")
     ELSE /\ Step("reprompt", reprompt(state), "END", GenerationCalls("reprompt"))
          /\ UNCHANGED <<analysis, issued>>

\* the pass-through routing node
RouteByQuestionType ==
  /\ pc = "routeByQuestionType"
  /\ Step("routeByQuestionType", state, routeByQuestionType(state), {})
  /\ UNCHANGED <<analysis, issued>>

StoreBasicResponse ==
  /\ pc = "storeBasicResponse"
  /\ IF ~HasCurrentQuestion(state) THEN Throw("storeBasicResponse")
     ELSE /\ Step("storeBasicResponse", storeBasicResponse(state),
                  routeAfterStore(storeBasicResponse(state)), {})
          /\ UNCHANGED <<analysis, issued>>

\* fallback mode or no current question: default categories, no call issued
\* otherwise both calls are issued at once and the node waits for the two
AnalyzeResponse ==
  /\ pc = "analyzeResponse"
  /\ analysis.phase = "idle"
  /\ IF analyzeSkipsCalls(state)
       THEN /\ Step("analyzeResponse", analyzeResponseParallel(state, DefaultCategories),
                    routeAfterAnalysis(analyzeResponseParallel(state, DefaultCategories)),
                    {})
            /\ UNCHANGED analysis
       ELSE /\ analysis' = [phase |-> "running", concern |-> None, proper |-> None]
            /\ turn' = [turn EXCEPT !.calls = turn.calls \cup {"concern", "proper"}]
            /\ UNCHANGED <<config, state, pc, host, probe>>
  /\ UNCHANGED issued

\* the outer catch: the model client cannot be built, so no call is issued
AnalyzeResponseFails ==
  /\ pc = "analyzeResponse"
  /\ analysis.phase = "idle"
  /\ ~analyzeSkipsCalls(state)
  /\ Step("analyzeResponse", analyzeResponseParallel(state, DefaultCategories),
          routeAfterAnalysis(analyzeResponseParallel(state, DefaultCategories)), {})
  /\ UNCHANGED <<analysis, issued>>

\* the concern check returns or fails
CheckConcernsReturns ==
  /\ analysis.phase = "running"
  /\ analysis.concern = None
  /\ \E reply \in ConcernReplies :
       /\ analysis' = [analysis EXCEPT !.concern = Some(checkConcernsAsync(reply))]
       /\ turn' = [turn EXCEPT !.checks =
                     Append(@, [call |-> "concern", ok |-> reply.ok,
                                result |-> checkConcernsAsync(reply)])]
  /\ UNCHANGED <<config, state, pc, host, issued, probe>>

\* the completeness check returns or fails
CheckProperResponseReturns ==
  /\ analysis.phase = "running"
  /\ analysis.proper = None
  /\ \E reply \in ProperReplies :
       /\ analysis' = [analysis EXCEPT !.proper = Some(checkProperResponseAsync(reply))]
       /\ turn' = [turn EXCEPT !.checks =
                     Append(@, [call |-> "proper", ok |-> reply.ok,
                                result |-> checkProperResponseAsync(reply)])]
  /\ UNCHANGED <<config, state, pc, host, issued, probe>>

\* mutant: the node returns as soon as the concern check is in
AnalyzeJoin_afterConcernCheck ==
  /\ pc = "analyzeResponse"
  /\ analysis.phase = "running"
  /\ analysis.concern # None
  /\ LET proper == IF analysis.proper = None
                     THEN [isProperResponse |-> TRUE, needsMoreContext |-> FALSE]
                     ELSE analysis.proper[1]
         s == analyzeResponseParallel(state, JoinCategories(analysis.concern[1], proper))
     IN Step("analyzeResponse", s, routeAfterAnalysis(s), {})
  /\ analysis' = IdleAnalysis
  /\ UNCHANGED issued

\* Promise.all resolves: the categories are written and the router is consulted
AnalyzeJoin ==
  /\ pc = "analyzeResponse"
  /\ analysis.phase = "running"
  /\ analysis.concern # None
  /\ analysis.proper # None
  /\ LET s == analyzeResponseParallel(
                state, JoinCategories(analysis.concern[1], analysis.proper[1]))
     IN Step("analyzeResponse", s, routeAfterAnalysis(s), {})
  /\ analysis' = IdleAnalysis
  /\ UNCHANGED issued

RespondToConcerns ==
  /\ pc = "respondToConcerns"
  /\ Step("respondToConcerns", respondToConcerns(state),
          routeAfterConcernResponse(respondToConcerns(state)), {})
  /\ UNCHANGED <<analysis, issued>>

StoreAssessmentResponse ==
  /\ pc = "storeAssessmentResponse"
  /\ IF ~HasCurrentQuestion(state) THEN Throw("storeAssessmentResponse")
     ELSE /\ Step("storeAssessmentResponse", storeAssessmentResponse(state),
                  routeAfterStore(storeAssessmentResponse(state)), {})
          /\ UNCHANGED <<analysis, issued>>

EmpathyCalls ==
  IF ~HasCurrentQuestion(state) \/ Falsy(state.translatedResponse)
    THEN {} ELSE GenerationCalls("empathy")

GenerateEmpathyForFollowup ==
  /\ pc = "generateEmpathyForFollowup"
  /\ Step("generateEmpathyForFollowup", generateEmpathy(state), "generateFollowup",
          EmpathyCalls)
  /\ UNCHANGED <<analysis, issued>>

GenerateEmpathyForStore ==
  /\ pc = "generateEmpathyForStore"
  /\ Step("generateEmpathyForStore", generateEmpathy(state), "storeAssessmentResponse",
          EmpathyCalls)
  /\ UNCHANGED <<analysis, issued>>

\* the follow-up question is generated, or the generation call fails
GenerateFollowup ==
  /\ pc = "generateFollowup"
  /\ IF generateFollowupThrows(state) THEN Throw("generateFollowup")
     ELSE \E ok \in BOOLEAN :
            LET s == generateFollowup(state, ok)
            IN /\ Step("generateFollowup", s, "END", GenerationCalls("followup"))
               /\ issued' =
                    IF s.currentFollowupCount # state.currentFollowupCount
                      THEN [issued EXCEPT ![state.currentQuestionIndex] = @ + 1]
                      ELSE issued
               /\ UNCHANGED analysis

Complete ==
  /\ pc = "complete"
  /\ Step("complete", complete(state), "END", GenerationCalls("closing"))
  /\ UNCHANGED <<analysis, issued>>

Next ==
  \/ StartInterview
  \/ SendMessage
  \/ Initialize
  \/ AskQuestion
  \/ TranslateIfNeeded
  \/ ValidateFormat
  \/ Reprompt
  \/ RouteByQuestionType
  \/ StoreBasicResponse
  \/ AnalyzeResponse
  \/ AnalyzeResponseFails
  \/ CheckConcernsReturns
  \/ CheckProperResponseReturns
  \/ AnalyzeJoin
  \/ RespondToConcerns
  \/ StoreAssessmentResponse
  \/ GenerateEmpathyForFollowup
  \/ GenerateEmpathyForStore
  \/ GenerateFollowup
  \/ Complete

\* the turns of the contract: the start of the interview and user messages
Spec == Init /\ [][Next]_vars

\* the thread is invoked with an input that carries no new message and leaves
\* every field as it is (the fields of the start input again, messages [])
Resume ==
  /\ pc = "END"
  /\ host.resumes < MaxResumes
  /\ host.messagesSent + host.resumes < MaxTurns
  /\ host' = [host EXCEPT !.resumes = host.resumes + 1]
  /\ Invoke(state)

NextResume ==
  \/ Next
  \/ Resume

\* the turns of the contract and invocations without a new message
SpecResume == Init /\ [][NextResume]_vars

(***************************************************************************)
(* The step handlers entered with a state that has no current question     *)
(***************************************************************************)
\* the nodes whose handler calls getCurrentQuestion
QuestionReaders ==
  {"askQuestion", "validateFormat", "reprompt", "storeBasicResponse",
   "analyzeResponse", "storeAssessmentResponse", "generateEmpathyForFollowup",
   "generateEmpathyForStore", "generateFollowup"}

\* a started interview whose index is at or past the end of its catalog, with
\* or without an answer in hand
MisSequenced(cfg, past, answer) ==
  [DefaultState EXCEPT
     !.interviewType = cfg.interview_type, !.questions = cfg.questions,
     !.llmFallback = cfg.llm_fallback, !.startedAt = "ts",
     !.currentQuestionIndex = Len(cfg.questions) + past,
     !.rawResponse = answer, !.translatedResponse = answer,
     !.messages = IF answer = None THEN <<AssistantMessage(Canned("welcome"))>>
                  ELSE <<AssistantMessage(Canned("welcome")), HumanMessage(answer[1])>>]

InitHandlers ==
  /\ config \in ValidConfigs
  /\ \E past \in 0..1, answer \in {None} \cup {Some(a) : a \in Answers} :
       state = MisSequenced(config, past, answer)
  /\ pc \in QuestionReaders
  /\ analysis = IdleAnalysis
  /\ turn = [steps |-> <<>>, calls |-> {}, failed |-> FALSE, entry |-> pc,
             checks |-> <<>>, translation |-> "none", verdict |-> None,
             before |-> Snapshot(state)]
  /\ host = [started |-> TRUE, messagesSent |-> 0, resumes |-> 0]
  /\ issued = [i \in 0..(MaxQuestions - 1) |-> 0]
  /\ probe = NoCall

NextHandlers ==
  \/ AskQuestion
  \/ ValidateFormat
  \/ Reprompt
  \/ StoreBasicResponse
  \/ AnalyzeResponse
  \/ StoreAssessmentResponse
  \/ GenerateEmpathyForFollowup
  \/ GenerateEmpathyForStore
  \/ GenerateFollowup

SpecHandlers == InitHandlers /\ [][NextHandlers]_vars

(***************************************************************************)
(* The validators called on their own, one call per behaviour              *)
(***************************************************************************)
\* questions as a host may write them: well-formed ones, and one for each way
\* of breaking a rule of the validator
RawQuestionPool ==
  LET q(type, text, k, options) ==
        [type |-> type, text |-> text, max_followups |-> k, group |-> "none",
         options |-> options]
  IN << q("yes_no", Canned("text"), JsInteger(0), <<>>),
        q("single_select", Canned("text"), JsInteger(1), <<Canned("option")>>),
        q("long_answer", Canned("text"), JsHalves(3), <<>>),
        q("yes_no", Canned("text"), JsInteger(0 - 1), <<>>),
        q("yes_no", Canned("text"), JsUndefined, <<>>),
        q("", Canned("text"), JsInteger(0), <<>>),
        q("essay", Canned("text"), JsInteger(0), <<>>),
        q("short_answer", <<>>, JsInteger(0), <<>>),
        q("single_select", Canned("text"), JsInteger(0), <<>>) >>

RawCatalogs ==
  UNION { [1..n -> {RawQuestionPool[i] : i \in 1..Len(RawQuestionPool)}] :
            n \in 0..MaxQuestions }

RawConfigs ==
  [interview_type : {"", "screener", "exit", "survey"}, questions : RawCatalogs,
   llm_fallback : {FALSE}]

\* answers to a number_scale question: the decimal string of every integer
\* of the range, and texts that are no decimal string of an integer
ScaleAnswers ==
  {NumToString(n) : n \in (0 - MaxScale)..MaxScale}
    \cup { <<>>, <<" ","7"," ">>, <<"0","7">>, <<"7",".","5">>, <<"+","3">>,
           <<"t","e","n">>, <<"3"," ","o","f"," ","1","0">> }

AnswerChars == {" ", "2", "a", "b", "B", "l", "o"}

\* answers to a single_select question
SelectAnswers ==
  UNION { [1..n -> AnswerChars] : n \in 0..MaxAnswerLen }
    \cup { <<"l","o","w">>, <<"M","E","D","I","U","M">>, <<" ","h","i","g","h"," ">>,
           <<"h","i">>, <<"3">>, <<"c">>, <<"d">>, <<"4">>, <<"0">>,
           <<"n","o","t"," ","l","o","w">> }

\* option lists: the one of the spec's scenario, lists in which two rules pick
\* different options, and a list with an empty option
OptionLists ==
  { << <<"L","o","w">>, <<"M","e","d","i","u","m">>, <<"H","i","g","h">> >>,
    << <<"l","o">>, <<"l">> >>,
    << <<"2">>, <<"a","b">> >>,
    << <<"a","b">>, <<"B">>, <<"a">> >>,
    << <<>>, <<"l","o">> >> }

\* n digits, the first of them lead
PhoneDigits(n, lead) ==
  [i \in 1..n |-> IF i = 1 THEN lead ELSE DigitChars[(i % 10) + 1]]

\* the digits as a user writes them: a plus sign in front, a dash after every
\* third digit, a blank at the end
RECURSIVE Dashed(_)
Dashed(ds) ==
  IF Len(ds) <= 3 THEN ds ELSE SubSeq(ds, 1, 3) \o <<"-">> \o Dashed(SubSeq(ds, 4, Len(ds)))

\* answers to a phone_number question
PhoneAnswers ==
  UNION { {PhoneDigits(n, lead), <<"+">> \o Dashed(PhoneDigits(n, lead)) \o <<" ">>} :
            n \in 0..MaxPhoneDigits, lead \in {"1", "5"} }
    \cup { <<"+","1"," ","(","5","5","5",")"," ","1","2","3","-","4","5","6","7">>,
           <<"c","a","l","l"," ","m","e">> }

PendingCalls ==
  {[fn |-> "validateInterviewConfig", input |-> Args(c, <<>>, <<>>), result |-> None] :
     c \in RawConfigs}
    \cup {[fn |-> "validateNumberScale", input |-> Args(NoConfig, a, <<>>),
           result |-> None] : a \in ScaleAnswers}
    \cup {[fn |-> "validateSingleSelect", input |-> Args(NoConfig, a, o),
           result |-> None] : a \in SelectAnswers, o \in OptionLists}
    \cup {[fn |-> "validatePhoneNumber", input |-> Args(NoConfig, a, <<>>),
           result |-> None] : a \in PhoneAnswers}

InitValidators ==
  /\ config = NoConfig
  /\ EngineIdle
  /\ probe \in PendingCalls

Returned(fn) == probe.fn = fn /\ probe.result # None

ValidateInterviewConfigCall ==
  /\ probe.fn = "validateInterviewConfig"
  /\ probe.result = None
  /\ probe' = [probe EXCEPT !.result = Some(validateInterviewConfig(probe.input.config))]
  /\ UNCHANGED <<config, state, pc, analysis, turn, host, issued>>

ValidateNumberScaleCall ==
  /\ probe.fn = "validateNumberScale"
  /\ probe.result = None
  /\ probe' = [probe EXCEPT !.result = Some(validateNumberScale(probe.input.response))]
  /\ UNCHANGED <<config, state, pc, analysis, turn, host, issued>>

ValidateSingleSelectCall ==
  /\ probe.fn = "validateSingleSelect"
  /\ probe.result = None
  /\ probe' = [probe EXCEPT
                 !.result = Some(validateSingleSelect(probe.input.response,
                                                      probe.input.options))]
  /\ UNCHANGED <<config, state, pc, analysis, turn, host, issued>>

ValidatePhoneNumberCall ==
  /\ probe.fn = "validatePhoneNumber"
  /\ probe.result = None
  /\ probe' = [probe EXCEPT !.result = Some(validatePhoneNumber(probe.input.response))]
  /\ UNCHANGED <<config, state, pc, analysis, turn, host, issued>>

NextValidators ==
  \/ ValidateInterviewConfigCall
  \/ ValidateNumberScaleCall
  \/ ValidateSingleSelectCall
  \/ ValidatePhoneNumberCall

SpecValidators == InitValidators /\ [][NextValidators]_vars

(***************************************************************************)
(* Properties                                                              *)
(***************************************************************************)
Last(seq) == seq[Len(seq)]
\* initialize has accepted the config and set up the interview
Started == state.startedAt # "null"
IsPrefix(p, seq) == Len(p) <= Len(seq) /\ SubSeq(seq, 1, Len(p)) = p
JustRan(node) == turn.steps # <<>> /\ Last(turn.steps) = node
Ran(node) == \E i \in 1..Len(turn.steps) : turn.steps[i] = node
\* the question that was current when the invocation began
QuestionBefore == state.questions[turn.before.currentQuestionIndex + 1]
ConcernVerdict == turn.verdict # None /\ turn.verdict[1].hasConcerns
IncompleteVerdict ==
  turn.verdict # None /\ ~turn.verdict[1].hasConcerns /\ ~turn.verdict[1].isProperResponse

\* C1: in a started interview no question receives more follow-up questions
\* than its max_followups, and the follow-up count never exceeds the
\* max_followups of the current question (it is 0 when no question is current)
C1_FollowupBound ==
  Started =>
  /\ \A i \in 1..Len(state.questions) :
       issued[i - 1] <= state.questions[i].max_followups
  /\ IF HasCurrentQuestion(state)
       THEN state.currentFollowupCount <= getCurrentQuestion(state).max_followups
       ELSE state.currentFollowupCount = 0

\* a question that got its full budget of MaxFollowups follow-ups, whose next
\* answer was again judged incomplete and was stored
C1_Witness ==
  /\ IncompleteVerdict
  /\ JustRan("storeAssessmentResponse")
  /\ QuestionBefore.max_followups = MaxFollowups
  /\ issued[turn.before.currentQuestionIndex] = MaxFollowups
  /\ Len(Last(state.responses).followups) = MaxFollowups

ConcernTurnToAsk ==
  <<"translateIfNeeded", "validateFormat", "routeByQuestionType", "analyzeResponse",
    "respondToConcerns", "storeAssessmentResponse", "askQuestion">>
ConcernTurnToFinish ==
  <<"translateIfNeeded", "validateFormat", "routeByQuestionType", "analyzeResponse",
    "respondToConcerns", "storeAssessmentResponse", "complete">>

\* C2: once analyze has flagged a concern, the rest of the turn is
\* respond-to-concern, store-assessment, then ask or finish; neither
\* acknowledgment step nor generate-followup runs in that turn
C2_ConcernShortCircuits ==
  ConcernVerdict =>
    /\ IsPrefix(turn.steps, ConcernTurnToAsk) \/ IsPrefix(turn.steps, ConcernTurnToFinish)
    /\ pc = "END" => turn.steps \in {ConcernTurnToAsk, ConcernTurnToFinish}
    /\ ~Ran("generateEmpathyForFollowup") /\ ~Ran("generateFollowup")

\* a finished concern turn whose answer was incomplete with budget to spare
C2_Witness ==
  /\ ConcernVerdict
  /\ ~turn.verdict[1].isProperResponse
  /\ turn.before.currentFollowupCount < QuestionBefore.max_followups
  /\ pc = "END"
  /\ ~turn.failed

\* C3: the response stored in a concern turn is flagged had_concern and
\* carries exactly the follow-up exchanges pending when the turn began
C3_ConcernStored ==
  (ConcernVerdict /\ Ran("storeAssessmentResponse") /\ ~turn.failed) =>
    /\ Len(state.responses) = Len(turn.before.responses) + 1
    /\ Last(state.responses).questionIndex = turn.before.currentQuestionIndex
    /\ Last(state.responses).hadConcerns
    /\ Last(state.responses).followups = turn.before.currentFollowups

\* a concern raised by the reply to a follow-up question
C3_Witness ==
  /\ ConcernVerdict
  /\ JustRan("storeAssessmentResponse")
  /\ turn.before.currentFollowups # <<>>
  /\ Last(state.responses).hadConcerns

\* C4: right after analyze the next node is respond-to-concern on a concern,
\* else acknowledge-for-store when the answer is complete or the follow-up
\* count equals max_followups, else acknowledge-for-followup
C4_RouteAfterAnalysis ==
  (JustRan("analyzeResponse") /\ HasCurrentQuestion(state)) =>
    LET cat == state.categories[1]
    IN pc = IF cat.hasConcerns THEN "respondToConcerns"
            ELSE IF cat.isProperResponse
                    \/ state.currentFollowupCount = getCurrentQuestion(state).max_followups
              THEN "generateEmpathyForStore"
            ELSE "generateEmpathyForFollowup"

\* an incomplete answer without concern when the budget is used up
C4_Witness ==
  /\ JustRan("analyzeResponse")
  /\ IncompleteVerdict
  /\ state.currentFollowupCount = getCurrentQuestion(state).max_followups
  /\ pc = "generateEmpathyForStore"
RepromptTurn == <<"translateIfNeeded", "validateFormat", "reprompt">>

\* what a turn that only reprompts leaves as it was when the turn began
ProgressUnchanged ==
  /\ state.currentQuestionIndex = turn.before.currentQuestionIndex
  /\ state.currentFollowupCount = turn.before.currentFollowupCount
  /\ state.currentFollowups = turn.before.currentFollowups
  /\ state.responses = turn.before.responses

\* C5: when validate-format sets needs_reprompt the next node is reprompt, the
\* turn consists of translate, validate-format and reprompt only and then waits,
\* and question index, follow-up count and stored responses are as before it
C5_RepromptDominates ==
  /\ (JustRan("validateFormat") /\ state.needsReprompt /\ ~turn.failed) =>
       /\ pc = "reprompt"
       /\ turn.steps = <<"translateIfNeeded", "validateFormat">>
       /\ ProgressUnchanged
  /\ Ran("reprompt") =>
       /\ turn.steps = RepromptTurn
       /\ pc = "END"
       /\ ProgressUnchanged

RepromptCount ==
  Cardinality({i \in 1..Len(state.messages) :
                 state.messages[i] = AssistantMessage(Canned("reprompt"))})

\* the second invalid answer in a row, given in reply to a follow-up question
C5_Witness ==
  /\ turn.steps = RepromptTurn
  /\ pc = "END"
  /\ RepromptCount >= 2
  /\ turn.before.currentFollowupCount >= 1
  /\ Len(turn.before.messages) >= 2
  /\ turn.before.messages[Len(turn.before.messages)] = AssistantMessage(Canned("reprompt"))

\* C6: a step leaves the question index unchanged or adds exactly 1 to it, only
\* the two store nodes change it, and within one invocation it grows by at most 1
C6_IndexSteps ==
  [][ /\ state'.currentQuestionIndex \in
           {state.currentQuestionIndex, state.currentQuestionIndex + 1}
      /\ state'.currentQuestionIndex # state.currentQuestionIndex =>
           pc \in {"storeBasicResponse", "storeAssessmentResponse"}
      /\ state'.currentQuestionIndex - turn'.before.currentQuestionIndex \in {0, 1}
    ]_vars

\* the second question has been answered and stored
C6_Witness ==
  /\ state.currentQuestionIndex = 2
  /\ turn.before.currentQuestionIndex = 1
  /\ JustRan("storeBasicResponse") \/ JustRan("storeAssessmentResponse")

\* C7 as stated: in every state of a started interview the question index
\* equals the catalog length iff the interview is complete
C7_IndexAtEndIffComplete_AllStates ==
  Started => (state.currentQuestionIndex = Len(state.questions) <=> state.isComplete)

\* C7 amended: between invocations of a started interview the question index
\* equals the catalog length iff the interview is complete, and in every state
\* a complete interview has its index at the catalog length
C7_IndexAtEndIffComplete ==
  Started =>
    /\ state.isComplete => state.currentQuestionIndex = Len(state.questions)
    /\ pc = "END" =>
         (state.currentQuestionIndex = Len(state.questions) <=> state.isComplete)

\* the interview has just completed
C7_Witness ==
  /\ pc = "END"
  /\ JustRan("complete")
  /\ state.isComplete
  /\ state.currentQuestionIndex = Len(state.questions)

\* C8: the stored responses are exactly one per question index below the
\* current index, in index order
C8_OneResponsePerAnsweredIndex ==
  /\ Len(state.responses) = state.currentQuestionIndex
  /\ \A i \in 1..Len(state.responses) : state.responses[i].questionIndex = i - 1

\* two questions answered, the second one by the basic store
C8_Witness ==
  /\ Len(state.responses) = 2
  /\ JustRan("storeBasicResponse")

\* C9: a step that changes the question index leaves follow-up count 0 and no
\* pending follow-up exchange, and both are so once the next question is asked
C9_FollowupsResetOnAdvance ==
  [][ /\ state'.currentQuestionIndex # state.currentQuestionIndex =>
           (state'.currentFollowupCount = 0 /\ state'.currentFollowups = <<>>)
      /\ (pc = "askQuestion" /\ ~turn'.failed) =>
           (state'.currentFollowupCount = 0 /\ state'.currentFollowups = <<>>)
    ]_vars

\* the next question has been asked after a question that had follow-ups
C9_Witness ==
  /\ JustRan("askQuestion")
  /\ ~turn.failed
  /\ turn.before.currentFollowupCount >= 1
  /\ state.currentQuestionIndex = turn.before.currentQuestionIndex + 1
  /\ state.currentFollowupCount = 0

\* C10: a turn whose valid answer is judged incomplete without concern issues
\* exactly one follow-up question while fewer than max_followups were issued,
\* and with max_followups issued it goes through acknowledge-for-store, stores
\* the answer and advances the index
C10_IncompleteAnswersScenario ==
  (IncompleteVerdict /\ pc = "END" /\ ~turn.failed) =>
    IF turn.before.currentFollowupCount < QuestionBefore.max_followups
      THEN /\ Ran("generateFollowup")
           /\ state.currentQuestionIndex = turn.before.currentQuestionIndex
           /\ state.currentFollowupCount = turn.before.currentFollowupCount + 1
           /\ Last(state.messages) = AssistantMessage(Canned("followup"))
      ELSE /\ Ran("generateEmpathyForStore")
           /\ Ran("storeAssessmentResponse")
           /\ state.currentQuestionIndex = turn.before.currentQuestionIndex + 1
           /\ Len(state.responses) = Len(turn.before.responses) + 1

\* C11: a turn that went through acknowledge-for-followup ends waiting for the
\* user with the follow-up count one above its value at the start of the turn
\* and the generated follow-up question as the last entry of the log
C11_FollowupTurnIncrements ==
  (Ran("generateEmpathyForFollowup") /\ pc = "END") =>
    /\ ~turn.failed
    /\ Ran("generateFollowup")
    /\ state.currentFollowupCount = turn.before.currentFollowupCount + 1
    /\ Last(state.messages) = AssistantMessage(Canned("followup"))

\* the outcome recorded for one of the two classification calls of this turn
HasCheck(call) == \E i \in 1..Len(turn.checks) : turn.checks[i].call = call
CheckOf(call) == turn.checks[CHOOSE i \in 1..Len(turn.checks) : turn.checks[i].call = call]
BothChecked == HasCheck("concern") /\ HasCheck("proper")
Joined == BothChecked /\ turn.verdict # None

\* C12: a failed concern check does not abort the turn and gives has_concern =
\* false while the completeness verdict of the other call is kept; a failed
\* completeness check gives is_complete_answer = true while the concern verdict
\* of the other call is kept
C12_FailedCheckDegradesLocally ==
  /\ (HasCheck("concern") /\ ~CheckOf("concern").ok) =>
        /\ ~turn.failed
        /\ ~CheckOf("concern").result.hasConcerns
        /\ Joined =>
             /\ ~turn.verdict[1].hasConcerns
             /\ turn.verdict[1].isProperResponse = CheckOf("proper").result.isProperResponse
             /\ turn.verdict[1].needsMoreContext = CheckOf("proper").result.needsMoreContext
  /\ (HasCheck("proper") /\ ~CheckOf("proper").ok) =>
        /\ ~turn.failed
        /\ CheckOf("proper").result.isProperResponse
        /\ Joined =>
             /\ turn.verdict[1].isProperResponse
             /\ turn.verdict[1].hasConcerns = CheckOf("concern").result.hasConcerns
             /\ turn.verdict[1].concernType = CheckOf("concern").result.concernType

\* the concern check failed, the completeness check said incomplete, and the
\* joined verdict sends the turn on to a follow-up
C12_Witness ==
  /\ JustRan("analyzeResponse")
  /\ Joined
  /\ ~CheckOf("concern").ok
  /\ CheckOf("proper").ok
  /\ ~turn.verdict[1].isProperResponse
  /\ ~turn.verdict[1].hasConcerns
  /\ pc = "generateEmpathyForFollowup"

\* C13: while the two checks of analyze are in flight the node has not returned
\* and the router has not been consulted; the node returns only when both are
\* in, and the categories it writes and the node chosen next are determined by
\* the two results alone, whichever of the two finished first
C13_JoinOnBothChecks ==
  /\ analysis.phase = "running" =>
        /\ pc = "analyzeResponse"
        /\ turn.verdict = None
        /\ ~Ran("analyzeResponse")
  /\ (turn.verdict # None /\ "concern" \in turn.calls) =>
        /\ Len(turn.checks) = 2
        /\ BothChecked
        /\ turn.verdict[1] =
             JoinCategories(CheckOf("concern").result, CheckOf("proper").result)
  /\ (JustRan("analyzeResponse") /\ Joined) =>
        /\ state.categories = turn.verdict
        /\ pc = routeAfterAnalysis(
                  [state EXCEPT !.categories =
                     Some(JoinCategories(CheckOf("concern").result,
                                         CheckOf("proper").result))])

\* the completeness check finished first and said incomplete, the concern
\* check finished second and reported a concern: the concern decides the route
C13_Witness ==
  /\ JustRan("analyzeResponse")
  /\ Len(turn.checks) = 2
  /\ turn.checks[1].call = "proper"
  /\ ~turn.checks[1].result.isProperResponse
  /\ turn.checks[2].call = "concern"
  /\ turn.checks[2].result.hasConcerns
  /\ pc = "respondToConcerns"

ClassificationCalls == {"translate", "concern", "proper"}

\* C14: in fallback mode no translate, concern or completeness call is issued
\* in any step; translate keeps the user's text with wasTranslated false, and
\* analyze writes the verdict no-concern and proper
C14_FallbackIssuesNoCalls ==
  state.llmFallback =>
    /\ turn.calls \cap ClassificationCalls = {}
    /\ turn.checks = <<>>
    /\ analysis = IdleAnalysis
    /\ JustRan("translateIfNeeded") =>
         /\ state.rawResponse = Some(Last(state.messages).content)
         /\ state.translatedResponse = state.rawResponse
         /\ ~state.wasTranslated
    /\ JustRan("analyzeResponse") =>
         /\ state.categories = Some(DefaultCategories)
         /\ ~CatHasConcerns(state)
         /\ CatIsProper(state)
         /\ pc = "generateEmpathyForStore"

\* fallback mode: a padded number given to an assessment question has been
\* kept as typed by translate and analyzed without any call
C14_Witness ==
  /\ state.llmFallback
  /\ JustRan("analyzeResponse")
  /\ Ran("translateIfNeeded")
  /\ state.rawResponse = Some(<<" ", "7">>)
  /\ ~state.wasTranslated
  /\ turn.calls = {}
  /\ state.categories = Some(DefaultCategories)

\* the invocation handles a user message
AnswerTurn == turn.entry = "translateIfNeeded"
AssessmentNodes ==
  {"analyzeResponse", "respondToConcerns", "storeAssessmentResponse",
   "generateEmpathyForFollowup", "generateEmpathyForStore", "generateFollowup"}
RanAny(nodes) == \E i \in 1..Len(turn.steps) : turn.steps[i] \in nodes

\* C15: a format-valid answer to a question with max_followups = 0 goes to
\* store-basic in the same turn, no analyze, acknowledge or follow-up node
\* runs, the categories stay null and the stored response has hadConcerns
\* false and no follow-ups; with max_followups >= 1 it goes to analyze
C15_BasicQuestionsSkipAnalysis ==
  AnswerTurn =>
    /\ (JustRan("validateFormat") /\ ~turn.failed /\ ~state.needsReprompt) =>
          pc = "routeByQuestionType"
    /\ JustRan("routeByQuestionType") =>
          pc = IF QuestionBefore.max_followups = 0 THEN "storeBasicResponse"
                                                   ELSE "analyzeResponse"
    /\ (Ran("routeByQuestionType") /\ QuestionBefore.max_followups = 0) =>
          /\ ~RanAny(AssessmentNodes)
          /\ state.categories = None
          /\ turn.verdict = None
          /\ turn.calls \cap {"concern", "proper", "empathy", "followup"} = {}
    /\ Ran("storeBasicResponse") =>
          /\ QuestionBefore.max_followups = 0
          /\ state.responses =
               Append(turn.before.responses, Last(state.responses))
          /\ ~Last(state.responses).hadConcerns
          /\ Last(state.responses).followups = <<>>
          /\ Last(state.responses).questionIndex = turn.before.currentQuestionIndex

\* "Yep" given to a yes/no question without follow-ups has been stored
C15_Witness ==
  /\ AnswerTurn
  /\ JustRan("storeBasicResponse")
  /\ QuestionBefore.max_followups = 0
  /\ Last(state.responses).rawAnswer = <<"Y", "e", "p">>
  /\ state.categories = None

StoreNodes == {"storeBasicResponse", "storeAssessmentResponse"}

\* C16: after a store node the next node is ask when the incremented index is
\* below the catalog length and finish otherwise, in the same turn; a stored
\* answer to the last question ends the turn with the interview complete
C16_RouteAfterStore ==
  /\ (turn.steps # <<>> /\ Last(turn.steps) \in StoreNodes /\ ~turn.failed) =>
        /\ state.currentQuestionIndex = turn.before.currentQuestionIndex + 1
        /\ pc = IF state.currentQuestionIndex < Len(state.questions)
                  THEN "askQuestion" ELSE "complete"
  /\ (RanAny(StoreNodes) /\ pc = "END") =>
        /\ ~turn.failed
        /\ IF turn.before.currentQuestionIndex + 1 < Len(state.questions)
             THEN JustRan("askQuestion") /\ ~state.isComplete
             ELSE JustRan("complete") /\ state.isComplete
  /\ Ran("complete") =>
        /\ RanAny(StoreNodes)
        /\ turn.before.currentQuestionIndex + 1 = Len(state.questions)

\* a catalog of one yes/no question: the answer "Yep" has been stored and the
\* same turn has finished the interview
C16_Witness ==
  /\ Len(state.questions) = 1
  /\ pc = "END"
  /\ turn.steps = <<"translateIfNeeded", "validateFormat", "routeByQuestionType",
                    "storeBasicResponse", "complete">>
  /\ state.responses[1].rawAnswer = <<"Y", "e", "p">>
  /\ state.isComplete
  /\ host.messagesSent = 1

\* the invocation has just entered the graph: the entry router has chosen the
\* first node and no node has run yet
AtEntry == turn.entry # "none" /\ turn.steps = <<>> /\ ~turn.failed /\ pc # "END"
LastIsUserMessage ==
  Len(state.messages) > 0 /\ Last(state.messages).role = "human"

\* C17: the entry router picks initialize when startedAt is unset, translate
\* when the interview is started, not complete and the last message of the log
\* is a user message, and initialize in every other case
C17_EntryRouter ==
  AtEntry =>
    /\ pc = turn.entry
    /\ pc = IF state.startedAt = "null" THEN "initialize"
            ELSE IF ~state.isComplete /\ LastIsUserMessage THEN "translateIfNeeded"
            ELSE "initialize"

\* the defensive default: a started, unfinished interview entered with an
\* assistant message last in the log
C17_Witness ==
  /\ AtEntry
  /\ Started
  /\ ~state.isComplete
  /\ Len(state.messages) > 0
  /\ Last(state.messages).role = "ai"
  /\ pc = "initialize"

\* C18: the transcript is set by the complete node only, together with
\* isComplete; an invocation that begins with the interview complete, with or
\* without a new user message, does not run complete and leaves the transcript,
\* the stored responses, the question index and isComplete as they were
C18_TranscriptSetOnce ==
  /\ state.transcript # None <=> state.isComplete
  /\ (state.transcript # None /\ turn.before.transcript = None) =>
        (JustRan("complete") /\ pc = "END")
  /\ turn.before.isComplete =>
        /\ state.isComplete
        /\ state.transcript = turn.before.transcript
        /\ state.responses = turn.before.responses
        /\ state.currentQuestionIndex = turn.before.currentQuestionIndex
        /\ pc # "complete"
        /\ ~Ran("complete")

\* after completion the thread was invoked once without input and once with a
\* new user message; the last invocation ended in askQuestion's error
C18_Witness ==
  /\ turn.before.isComplete
  /\ host.resumes = 1
  /\ LastIsUserMessage
  /\ Len(state.messages) > Len(state.transcript[1].fullTranscript)
  /\ JustRan("askQuestion")
  /\ turn.failed
  /\ pc = "END"

\* the node that follows a routed node, as a function of the state alone
NextStepOf(node, s) ==
  LET k == s.questions[s.currentQuestionIndex + 1].max_followups
      concern == s.categories # None /\ s.categories[1].hasConcerns
      proper == s.categories # None /\ s.categories[1].isProperResponse
  IN CASE node = "START" ->
            IF s.startedAt # "null" /\ ~s.isComplete /\ Len(s.messages) > 0
                 /\ Last(s.messages).role = "human"
              THEN "translateIfNeeded" ELSE "initialize"
       [] node = "validateFormat" ->
            IF s.needsReprompt THEN "reprompt" ELSE "routeByQuestionType"
       [] node = "routeByQuestionType" ->
            IF k = 0 THEN "storeBasicResponse" ELSE "analyzeResponse"
       [] node = "analyzeResponse" ->
            IF concern THEN "respondToConcerns"
            ELSE IF proper \/ s.currentFollowupCount >= k THEN "generateEmpathyForStore"
            ELSE "generateEmpathyForFollowup"
       [] node = "respondToConcerns" -> "storeAssessmentResponse"
       [] node \in StoreNodes ->
            IF s.currentQuestionIndex < Len(s.questions) THEN "askQuestion"
                                                         ELSE "complete"

RoutedNodes ==
  {"validateFormat", "routeByQuestionType", "analyzeResponse", "respondToConcerns"}
    \cup StoreNodes

\* C19: whenever a router is consulted the node it picks is a function of the
\* state alone, the same for equal states, and the state the router leaves is
\* the one it was given: the input merged at entry, the node's update elsewhere
C19_RoutersArePure ==
  [][ /\ (pc = "END" /\ pc' # "END") =>
           /\ pc' = NextStepOf("START", state')
           /\ state' = [state EXCEPT !.messages = state'.messages,
                                      !.interviewType = state'.interviewType,
                                      !.questions = state'.questions,
                                      !.llmFallback = state'.llmFallback]
      /\ (pc \in RoutedNodes /\ ~turn'.failed /\ Len(turn'.steps) > Len(turn.steps)) =>
           /\ pc' = NextStepOf(pc, state')
           /\ pc = "validateFormat" => state' = validateFormat(state)
           /\ pc = "routeByQuestionType" => state' = state
           /\ pc = "analyzeResponse" =>
                state' = [state EXCEPT !.categories = state'.categories]
           /\ pc = "respondToConcerns" => state' = respondToConcerns(state)
           /\ pc = "storeBasicResponse" => state' = storeBasicResponse(state)
           /\ pc = "storeAssessmentResponse" => state' = storeAssessmentResponse(state)
    ]_vars

\* one turn in which all six routers have been consulted
C19_Witness ==
  /\ turn.entry = "translateIfNeeded"
  /\ IsPrefix(<<"translateIfNeeded", "validateFormat", "routeByQuestionType",
                "analyzeResponse", "respondToConcerns", "storeAssessmentResponse">>,
              turn.steps)
  /\ pc = "complete"

\* C20: with an invalid interview config initialize throws before writing
\* anything: no assistant message is ever appended, startedAt stays unset, no
\* node other than initialize runs, and every invocation ends in the error
C20_InvalidConfigAborts ==
  config \in InvalidConfigs =>
    /\ state.startedAt = "null"
    /\ \A i \in 1..Len(state.messages) : state.messages[i].role = "human"
    /\ state.currentQuestionIndex = 0
    /\ state.responses = <<>>
    /\ ~state.isComplete
    /\ pc \in {"END", "initialize"}
    /\ ~Ran("askQuestion")
    /\ turn.steps \in {<<>>, <<"initialize">>}
    /\ turn.steps = <<"initialize">> => (turn.failed /\ pc = "END")
    /\ turn.calls = {}

\* a catalog whose question has a negative max_followups: the start has failed
C20_Witness ==
  /\ config \in InvalidConfigs
  /\ Len(config.questions) = 1
  /\ config.questions[1].max_followups < 0
  /\ host.started
  /\ host.messagesSent = 0
  /\ turn.steps = <<"initialize">>
  /\ turn.failed
  /\ pc = "END"
  /\ state.messages = <<>>
  /\ state.startedAt = "null"

\* the configs the claim calls valid
IsNonNegativeInteger(v) == v.type = "number" /\ v.twice >= 0 /\ v.twice % 2 = 0
WellFormedConfig(c) ==
  /\ c.interview_type \in {"screener", "exit"}
  /\ Len(c.questions) > 0
  /\ \A i \in 1..Len(c.questions) :
       LET q == c.questions[i]
       IN /\ q.text # <<>>
          /\ q.type \in QuestionTypes
          /\ IsNonNegativeInteger(q.max_followups)
          /\ (q.type = "single_select" => Len(q.options) > 0)

\* C21: the config validator accepts a config exactly when the interview type
\* is screener or exit, the catalog is non-empty, every question has a text,
\* one of the six types and a non-negative integer max_followups, and every
\* single_select question has options
C21_ConfigAcceptedIffWellFormed ==
  Returned("validateInterviewConfig") =>
    (probe.result[1] = "ok" <=> WellFormedConfig(probe.input.config))

\* C22: a handler that reads the current question, run when the question
\* index is not below the catalog length, throws and leaves the state as it was
C22_NoQuestionIsFatal ==
  [][ (pc \in QuestionReaders /\ ~HasCurrentQuestion(state)) =>
        /\ turn'.failed
        /\ pc' = "END"
        /\ state' = state
    ]_vars

\* the responses of a list that carry a concern
ConcernCount(responses) ==
  Cardinality({i \in 1..Len(responses) : responses[i].hadConcerns})

\* C23: the final transcript counts as concerns the stored responses flagged
\* with a concern, and reports as many questions answered as the catalog holds
C23_TranscriptCounts ==
  state.transcript # None =>
    LET t == state.transcript[1]
    IN /\ t.concernsDetected = ConcernCount(state.responses)
       /\ t.responses = state.responses
       /\ t.questionCount = Len(config.questions)
       /\ t.questionsAnswered = t.questionCount

\* a transcript over two questions of which one, not both, raised a concern
C23_Witness ==
  /\ state.transcript # None
  /\ state.transcript[1].questionCount = 2
  /\ state.transcript[1].concernsDetected = 1
  /\ ConcernCount(state.responses) = 1

\* C24: every step and every turn only appends to the message log and to the
\* stored responses, and the finish step builds the full log from the message
\* log in order with the closing message as its last entry
C24_ListsOnlyGrow ==
  [][ /\ IsPrefix(state.messages, state'.messages)
      /\ IsPrefix(state.responses, state'.responses)
      /\ (pc = "complete" =>
            /\ state'.transcript # None
            /\ state'.messages = Append(state.messages, Last(state'.messages))
            /\ state'.transcript[1].fullTranscript =
                 [i \in 1..Len(state'.messages) |->
                    TranscriptMessage(state'.messages[i])])
    ]_vars

\* a finished interview whose log holds answers of the user and whose
\* response list holds two entries, with the closing message last in both
C24_Witness ==
  /\ JustRan("complete")
  /\ Len(state.responses) = 2
  /\ \E i \in 1..Len(state.messages) : state.messages[i].role = "human"
  /\ Last(state.messages).content = Canned("closing")
  /\ Last(state.transcript[1].fullTranscript) =
       [role |-> "assistant", content |-> Canned("closing")]

\* the per-turn scratch fields hold nothing
ScratchCleared(s) ==
  /\ s.rawResponse = None
  /\ s.translatedResponse = None
  /\ s.categories = None
  /\ ~s.wasTranslated

\* C25: right after a store step, and whenever the engine waits on a question
\* it has just asked, the answer texts and the classification are null and
\* the translated flag is false
C25_ScratchCleared ==
  /\ ((\E n \in StoreNodes : JustRan(n)) /\ ~turn.failed) => ScratchCleared(state)
  /\ (pc = "END" /\ JustRan("askQuestion") /\ ~turn.failed) => ScratchCleared(state)

\* the engine waits on the next question after a turn that translated,
\* classified and stored the answer to the previous one
C25_Witness ==
  /\ pc = "END"
  /\ JustRan("askQuestion")
  /\ Ran("storeAssessmentResponse")
  /\ Ran("translateIfNeeded")
  /\ turn.verdict # None
  /\ ScratchCleared(state)

(***************************************************************************)
(* Termination of an invocation                                            *)
(***************************************************************************)
\* the steps of the engine inside an invocation other than validateFormat:
\* a node runs, or an external call of the analysis returns or fails
CascadeSteps ==
  \/ Initialize
  \/ AskQuestion
  \/ TranslateIfNeeded
  \/ Reprompt
  \/ RouteByQuestionType
  \/ StoreBasicResponse
  \/ AnalyzeResponse
  \/ AnalyzeResponseFails
  \/ CheckConcernsReturns
  \/ CheckProperResponseReturns
  \/ AnalyzeJoin
  \/ RespondToConcerns
  \/ StoreAssessmentResponse
  \/ GenerateEmpathyForFollowup
  \/ GenerateEmpathyForStore
  \/ GenerateFollowup
  \/ Complete

\* an invocation under way is carried on: the graph runs the node it routed
\* to, and every external call returns or fails.  The second conjunct is
\* WF_vars(ValidateFormat) with ENABLED <<ValidateFormat>>_vars written as
\* pc = "validateFormat": the node has no other guard, and both of its
\* outcomes extend turn.steps
EngineFairness ==
  /\ WF_vars(CascadeSteps)
  /\ ([]<>(pc # "validateFormat") \/ []<><<ValidateFormat>>_vars)

SpecLive == Init /\ [][NextResume]_vars /\ EngineFairness

\* the nodes with an edge to END
WaitingSteps == {"askQuestion", "reprompt", "generateFollowup"}
FinishStep == "complete"

NoStepTwice ==
  \A i, j \in 1..Len(turn.steps) : i # j => turn.steps[i] # turn.steps[j]

InvocationOver == pc = "END" /\ turn.entry # "none"

\* C26 as stated: no step runs twice in an invocation, every invocation comes
\* to an end, and it ends on a waiting step or on the finish step
C26_InvocationEndsWaitingOrFinished ==
  /\ [](NoStepTwice /\ (InvocationOver => Last(turn.steps) \in WaitingSteps \cup {FinishStep}))
  /\ (pc # "END") ~> (pc = "END")

\* C26: no step runs twice in an invocation, every invocation comes to an
\* end, and it ends on a waiting step, on the finish step, or with the fatal
\* error of initialize (invalid configuration) or of askQuestion (no question)
C26_InvocationTerminates ==
  /\ [](/\ NoStepTwice
        /\ InvocationOver =>
             IF turn.failed THEN Last(turn.steps) \in {"initialize", "askQuestion"}
             ELSE Last(turn.steps) \in WaitingSteps \cup {FinishStep})
  /\ (pc # "END") ~> (pc = "END")

\* an invocation that ran the longest cascade of the graph, through both
\* classification calls, the store and the finish step
C26_Witness ==
  /\ InvocationOver
  /\ ~turn.failed
  /\ Last(turn.steps) = FinishStep
  /\ Ran("analyzeResponse")
  /\ BothChecked
  /\ Len(turn.steps) >= 7

\* C27: when the translate call fails the step stores the user's message as it
\* was sent as raw and as translated answer with wasTranslated false and hands
\* over to validateFormat; the invocation runs validateFormat and ends without
\* an error
C27_FailedTranslationKeepsAnswer ==
  turn.translation = "failed" =>
    /\ ~turn.failed
    /\ "translate" \in turn.calls
    /\ JustRan("translateIfNeeded") =>
         /\ pc = "validateFormat"
         /\ LastIsUserMessage
         /\ state.rawResponse = Some(Last(state.messages).content)
         /\ state.translatedResponse = state.rawResponse
         /\ ~state.wasTranslated
         /\ Snapshot(state) = [turn.before EXCEPT !.messages = state.messages]
    /\ InvocationOver => Ran("validateFormat")

\* the call failed on an answer it would have rendered differently, and the
\* turn went on to validate and store the answer
C27_Witness ==
  /\ turn.translation = "failed"
  /\ InvocationOver
  /\ ~turn.failed
  /\ RanAny(StoreNodes)
  /\ Last(state.responses).rawAnswer = <<"Y","e","p">>
  /\ ~Last(state.responses).wasTranslated

\* C28: for every integer n the number_scale validator accepts the decimal
\* string of n exactly when 1 <= n <= 10, and then normalizes it to that string
C28_NumberScaleAcceptsOneToTen ==
  Returned("validateNumberScale") =>
    \A n \in (0 - MaxScale)..MaxScale :
      probe.input.response = NumToString(n) =>
        /\ probe.result[1].isValid <=> (1 <= n /\ n <= 10)
        /\ probe.result[1].isValid => probe.result[1].normalizedValue = NumToString(n)

\* the validator accepted "10"
C28_Witness ==
  /\ Returned("validateNumberScale")
  /\ probe.input.response = NumToString(10)
  /\ probe.result[1].isValid
  /\ probe.result[1].normalizedValue = <<"1","0">>

\* it rejected "11", "0" or the string of a negative number
C28_WitnessRejected ==
  /\ Returned("validateNumberScale")
  /\ probe.input.response \in {NumToString(11), NumToString(0), NumToString(0 - 3)}
  /\ ~probe.result[1].isValid

\* C29: for every response and every non-empty option list single_select
\* validation is invalid or yields as normalized value an element of the
\* option list, in the option's own spelling
C29_SelectYieldsAnOption ==
  Returned("validateSingleSelect") =>
    LET options == probe.input.options
        result == probe.result[1]
    IN /\ Len(options) > 0
       /\ result.isValid => \E i \in 1..Len(options) : result.normalizedValue = options[i]
       /\ ~result.isValid => result.normalizedValue = <<>>

\* "medium" in capitals is normalized to the option as the list spells it
C29_Witness ==
  /\ Returned("validateSingleSelect")
  /\ probe.input.response = <<"M","E","D","I","U","M">>
  /\ probe.result[1].isValid
  /\ probe.result[1].normalizedValue = <<"M","e","d","i","u","m">>
  /\ probe.result[1].normalizedValue # probe.input.response

\* the rules of single_select in their order; a rule picks the first option
\* of the list that satisfies it, the index rule the option at the index
SelectRuleHolds(rule, trimmed, opt) ==
  CASE rule = 1 -> ToLowerCase(opt) = trimmed
    [] rule = 2 -> StartsWith(ToLowerCase(opt), trimmed) \/ StartsWith(trimmed, ToLowerCase(opt))
    [] rule = 3 -> Includes(trimmed, ToLowerCase(opt))

SelectRulePick(rule, trimmed, options) ==
  IF rule = 4
    THEN parseOptionIndex(trimmed, Len(options)) + 1
  ELSE IF \E i \in 1..Len(options) : SelectRuleHolds(rule, trimmed, options[i])
    THEN CHOOSE i \in 1..Len(options) :
           /\ SelectRuleHolds(rule, trimmed, options[i])
           /\ \A j \in 1..(i - 1) : ~SelectRuleHolds(rule, trimmed, options[j])
  ELSE 0

\* the rule that decides: the first of the four that picks an option, 0 if none
FirstSelectRule(trimmed, options) ==
  IF \E r \in 1..4 : SelectRulePick(r, trimmed, options) # 0
    THEN CHOOSE r \in 1..4 :
           /\ SelectRulePick(r, trimmed, options) # 0
           /\ \A q \in 1..(r - 1) : SelectRulePick(q, trimmed, options) = 0
  ELSE 0

\* C30: single_select returns the option picked by the first rule that
\* matches, in the order exact, prefix in either direction, contained option,
\* index; it is invalid exactly when no rule matches
C30_SelectRulesInOrder ==
  Returned("validateSingleSelect") =>
    LET options == probe.input.options
        trimmed == ToLowerCase(Trim(probe.input.response))
        rule == FirstSelectRule(trimmed, options)
        result == probe.result[1]
    IN /\ result.isValid <=> rule # 0
       /\ rule # 0 =>
            result.normalizedValue = options[SelectRulePick(rule, trimmed, options)]

\* C30 for option lists whose options are all non-empty texts
C30_SelectRulesInOrder_NonEmptyOptions ==
  (/\ Returned("validateSingleSelect")
   /\ \A i \in 1..Len(probe.input.options) : probe.input.options[i] # <<>>)
    => LET options == probe.input.options
           trimmed == ToLowerCase(Trim(probe.input.response))
           rule == FirstSelectRule(trimmed, options)
           result == probe.result[1]
       IN /\ result.isValid <=> rule # 0
          /\ rule # 0 =>
               result.normalizedValue = options[SelectRulePick(rule, trimmed, options)]

\* the answer "b" to the options Low, Medium, High is taken as the second
\* option by the index rule
C30_ScenarioB ==
  /\ Returned("validateSingleSelect")
  /\ probe.input.options =
       << <<"L","o","w">>, <<"M","e","d","i","u","m">>, <<"H","i","g","h">> >>
  /\ probe.input.response = <<"b">>
  /\ FirstSelectRule(<<"b">>, probe.input.options) = 4
  /\ probe.result[1] = Valid(<<"M","e","d","i","u","m">>)

\* C31: the phone_number validator accepts an answer exactly when the digits
\* in it number 10, or 11 with a leading 1, or between 7 and 15; the
\* normalized value is those digits, without the leading 1 in the 11-digit case
C31_PhoneNumberDigits ==
  Returned("validatePhoneNumber") =>
    LET digits == SelectSeq(probe.input.response, IsDigit)
        n == Len(digits)
        countryCode == n = 11 /\ digits[1] = "1"
        result == probe.result[1]
    IN /\ result.isValid <=> (n = 10 \/ countryCode \/ (n >= 7 /\ n <= 15))
       /\ result.isValid =>
            result.normalizedValue = IF countryCode THEN Tail(digits) ELSE digits

\* "+1 (555) 123-4567" is normalized to "5551234567"
C31_Witness ==
  /\ Returned("validatePhoneNumber")
  /\ probe.input.response =
       <<"+","1"," ","(","5","5","5",")"," ","1","2","3","-","4","5","6","7">>
  /\ probe.result[1] = Valid(<<"5","5","5","1","2","3","4","5","6","7">>)

\* 6 and 16 digits are rejected, 11 digits with another leading digit are kept
C31_WitnessEdges ==
  /\ Returned("validatePhoneNumber")
  /\ \/ Len(probe.input.response) \in {6, 16} /\ ~probe.result[1].isValid
     \/ /\ probe.input.response = PhoneDigits(11, "5")
        /\ probe.result[1] = Valid(PhoneDigits(11, "5"))

\* the user turns the catalog allows for: one answer per question and one
\* reply per follow-up question it may receive
RECURSIVE TurnBudget(_)
TurnBudget(questions) ==
  IF questions = <<>> THEN 0
  ELSE 1 + Head(questions).max_followups + TurnBudget(Tail(questions))

\* no acknowledgement in the log was left without the follow-up question or
\* the next step's message after it
FollowupsGenerated ==
  \A i \in 1..Len(state.messages) :
    state.messages[i] = AssistantMessage(Canned("empathy")) =>
      i < Len(state.messages) /\ state.messages[i + 1].role = "ai"

\* C32: while every answer was format-valid (no reprompt in the log), an
\* interview that has had as many user turns as the sum over its questions of
\* 1 + max_followups is finished
C32_FinishedWithinTurnBudget ==
  (/\ Started
   /\ pc = "END"
   /\ RepromptCount = 0
   /\ host.messagesSent >= TurnBudget(state.questions))
    => state.isComplete

\* C32 for interviews in which no follow-up generation call failed
C32_FinishedWithinTurnBudget_FollowupsGenerated ==
  (/\ Started
   /\ pc = "END"
   /\ RepromptCount = 0
   /\ FollowupsGenerated
   /\ host.messagesSent >= TurnBudget(state.questions))
    => state.isComplete

\* an interview that used its whole budget of three turns on one question
C32_BudgetUsed ==
  /\ state.isComplete
  /\ RepromptCount = 0
  /\ host.messagesSent = 3
  /\ TurnBudget(state.questions) = 3
  /\ Len(state.responses[1].followups) = 2

\* the texts the user has sent
UserTexts ==
  {state.messages[i].content :
     i \in {j \in 1..Len(state.messages) : state.messages[j].role = "human"}}

\* C33: every follow-up exchange of a stored response pairs the follow-up
\* question with the reply the user gave to it
C33_FollowupAnswersRecorded ==
  \A i \in 1..Len(state.responses) :
    \A j \in 1..Len(state.responses[i].followups) :
      LET exchange == state.responses[i].followups[j]
      IN /\ exchange.question = Canned("followup")
         /\ exchange.answer # <<>>
         /\ \E text \in UserTexts : exchange.answer \in {text, Trim(text)}

\* a response was stored after the user had replied to two follow-up questions
C33_RepliesGiven ==
  /\ JustRan("storeAssessmentResponse")
  /\ Len(Last(state.responses).followups) = 2
  /\ Cardinality({i \in 1..Len(state.messages) : state.messages[i].role = "human"}) = 3

\* position in the log of the question the stored response answers: the last
\* message that asks a catalog question, as the log stood when the turn began
AskedAt ==
  LET log == turn.before.messages
  IN CHOOSE i \in 1..Len(log) :
       /\ log[i] = AssistantMessage(Canned("question"))
       /\ \A j \in (i + 1)..Len(log) : log[j] # AssistantMessage(Canned("question"))

\* the user's answer to that question: the first message of the user after it
\* that was not turned down with a reprompt
OriginalAnswer ==
  LET log == state.messages
      accepted == {i \in (AskedAt + 1)..Len(log) :
                     /\ log[i].role = "human"
                     /\ i < Len(log)
                     /\ log[i + 1] # AssistantMessage(Canned("reprompt"))}
  IN log[CHOOSE i \in accepted : \A j \in accepted : i <= j].content

\* C34: the response stored for a question that received follow-ups has as
\* raw answer the user's answer to the question itself
C34_RawAnswerIsOriginal ==
  (/\ JustRan("storeAssessmentResponse")
   /\ ~turn.failed
   /\ Len(Last(state.responses).followups) >= 1)
    => Last(state.responses).rawAnswer = OriginalAnswer

\* C34 for questions stored without any follow-up
C34_RawAnswerIsOriginal_NoFollowups ==
  (/\ JustRan("storeAssessmentResponse")
   /\ ~turn.failed
   /\ Len(Last(state.responses).followups) = 0
   /\ FollowupsGenerated)
    => Last(state.responses).rawAnswer = OriginalAnswer

\* the invocation was made on a started, unfinished interview whose log did
\* not end with a message of the user, and it is over
ResumedInvocation ==
  /\ InvocationOver
  /\ turn.before.messages # <<>>
  /\ Last(turn.before.messages).role # "human"
  /\ ~turn.before.isComplete
  /\ turn.entry = "initialize"

\* C35: such an invocation leaves the question index, the follow-up count, the
\* pending follow-up exchanges and the stored responses as they were and adds
\* the current question to the log
C35_ResumeOnlyReasks ==
  ResumedInvocation =>
    /\ ~turn.failed
    /\ turn.steps = <<"initialize", "askQuestion">>
    /\ ProgressUnchanged
    /\ state.messages =
         Append(turn.before.messages, AssistantMessage(Canned("question")))

\* C35 for interviews that were not waiting on a follow-up question
C35_ResumeOnlyReasks_NoFollowupPending ==
  (ResumedInvocation /\ turn.before.currentFollowupCount = 0) =>
    /\ ~turn.failed
    /\ turn.steps = <<"initialize", "askQuestion">>
    /\ ProgressUnchanged
    /\ state.messages =
         Append(turn.before.messages, AssistantMessage(Canned("question")))

\* the engine was invoked while the user owed the reply to a follow-up question
C35_ResumedOnFollowup ==
  /\ ResumedInvocation
  /\ turn.before.currentFollowupCount = 1
  /\ Last(turn.before.messages) = AssistantMessage(Canned("followup"))

\* C36: there are as many pending follow-up exchanges as the follow-up count
\* says, and no stored response carries more follow-up exchanges than the
\* max_followups of its question
C36_PendingFollowupsCounted ==
  /\ Len(state.currentFollowups) = state.currentFollowupCount
  /\ \A i \in 1..Len(state.responses) :
       Len(state.responses[i].followups) <=
         state.questions[state.responses[i].questionIndex + 1].max_followups

\* two follow-up exchanges pending, later stored with the response
C36_Witness ==
  /\ JustRan("storeAssessmentResponse")
  /\ turn.before.currentFollowupCount = MaxFollowups
  /\ Len(turn.before.currentFollowups) = MaxFollowups
  /\ Len(Last(state.responses).followups) = MaxFollowups
  /\ state.currentFollowups = <<>>

\* the engine waits for the user: no invocation under way, interview started
\* and not finished
WaitingForUser(s, at) == at = "END" /\ s.startedAt # "null" /\ ~s.isComplete

\* C37: whenever the engine waits for the user the log ends with an assistant
\* message and needsReprompt is false, and the invocation that brings the
\* user's next message enters at translateIfNeeded
C37_WaitingStateEntersAtTranslate ==
  [][ /\ WaitingForUser(state', pc') =>
           /\ state'.messages # <<>>
           /\ Last(state'.messages).role = "ai"
           /\ ~state'.needsReprompt
      /\ (WaitingForUser(state, pc) /\ host'.messagesSent = host.messagesSent + 1) =>
           /\ pc' = "translateIfNeeded"
           /\ turn'.entry = "translateIfNeeded"
           /\ state'.messages = Append(state.messages, Last(state'.messages))
           /\ Last(state'.messages).role = "human"
    ]_vars

\* the user's message arrives after a turn that ended on a reprompt
C37_Witness ==
  /\ AtEntry
  /\ turn.entry = "translateIfNeeded"
  /\ turn.before.messages # <<>>
  /\ Last(turn.before.messages) = AssistantMessage(Canned("reprompt"))
  /\ ~state.needsReprompt

\* it arrives after a turn that ended on an acknowledgement with no follow-up
\* question after it
C37_WitnessAfterAcknowledgement ==
  /\ AtEntry
  /\ turn.entry = "translateIfNeeded"
  /\ turn.before.messages # <<>>
  /\ Last(turn.before.messages) = AssistantMessage(Canned("empathy"))

\* C38: in offline mode the follow-up count is 0 in every state, no stored
\* response is flagged with a concern, and a turn whose answer passed the
\* format validation stores it and advances the index
C38_OfflineMode ==
  (Started /\ state.llmFallback) =>
    /\ state.currentFollowupCount = 0
    /\ state.currentFollowups = <<>>
    /\ \A i \in 1..Len(state.responses) :
         /\ ~state.responses[i].hadConcerns
         /\ state.responses[i].followups = <<>>
    /\ (AnswerTurn /\ InvocationOver /\ ~Ran("reprompt")) =>
         /\ ~turn.failed
         /\ RanAny(StoreNodes)
         /\ state.currentQuestionIndex = turn.before.currentQuestionIndex + 1
         /\ Len(state.responses) = Len(turn.before.responses) + 1

\* in offline mode the answer to a question that allows follow-ups went
\* through analyzeResponse and was stored in the same turn
C38_Witness ==
  /\ state.llmFallback
  /\ AnswerTurn
  /\ InvocationOver
  /\ Ran("analyzeResponse")
  /\ Ran("storeAssessmentResponse")
  /\ QuestionBefore.max_followups = MaxFollowups
  /\ state.currentQuestionIndex = turn.before.currentQuestionIndex + 1

\* the text validateFormat was given in this turn: the user's message, or the
\* rendering the translate call returned for it
TextToValidate ==
  LET sent == Last(turn.before.messages \o
                   SubSeq(state.messages, Len(turn.before.messages) + 1,
                          Len(turn.before.messages) + 1)).content
  IN IF turn.translation = "returned" THEN Trim(Rendering(sent)) ELSE sent

ClassifyingNodes == AssessmentNodes \cup StoreNodes \cup {"routeByQuestionType"}

\* C39: a turn that handles a user message validates it against the kind of
\* the current question before anything else looks at it; when validation
\* fails the turn reprompts, no analyze, acknowledge or store node runs, and
\* the follow-up count stays as it was, also for the reply to a follow-up
C39_ValidationBeforeClassification ==
  AnswerTurn =>
    /\ RanAny(ClassifyingNodes \cup {"reprompt"}) =>
         /\ Len(turn.steps) >= 3
         /\ turn.steps[1] = "translateIfNeeded"
         /\ turn.steps[2] = "validateFormat"
    /\ (JustRan("validateFormat") /\ ~turn.failed) =>
         /\ state.needsReprompt <=>
              \/ TextToValidate = <<>>
              \/ ~validateResponse(TextToValidate, QuestionBefore).isValid
         /\ pc = IF state.needsReprompt THEN "reprompt" ELSE "routeByQuestionType"
    /\ Ran("reprompt") =>
         /\ ~RanAny(ClassifyingNodes)
         /\ state.currentFollowupCount = turn.before.currentFollowupCount
         /\ state.currentFollowups = turn.before.currentFollowups

\* the reply to a follow-up question failed validation and was reprompted
C39_Witness ==
  /\ AnswerTurn
  /\ InvocationOver
  /\ turn.steps = RepromptTurn
  /\ turn.before.currentFollowupCount >= 1
  /\ Last(turn.before.messages) = AssistantMessage(Canned("followup"))
  /\ state.currentFollowupCount = turn.before.currentFollowupCount

(***************************************************************************)
(* Interviews with a single_select question                                *)
(***************************************************************************)
SelectOptions ==
  << <<"O","p","t","i","o","n"," ","A">>, <<"O","p","t","i","o","n"," ","B">>,
     <<"O","p","t","i","o","n"," ","C">> >>

SelectConfigs ==
  [interview_type : {"screener"},
   questions : { << Question("single_select", 0, SelectOptions),
                    Question("long_answer", MaxFollowups, <<>>) >>,
                 << Question("long_answer", MaxFollowups, <<>>),
                    Question("single_select", 0, SelectOptions) >> },
   llm_fallback : BOOLEAN]

InitSelect ==
  /\ config \in SelectConfigs
  /\ EngineIdle
  /\ probe = NoCall

SpecSelect == InitSelect /\ [][Next]_vars

\* the user's message of this turn is empty or only whitespace
BlankAnswer ==
  /\ AnswerTurn
  /\ Trim(Last(turn.before.messages \o
               SubSeq(state.messages, Len(turn.before.messages) + 1,
                      Len(turn.before.messages) + 1)).content) = <<>>

\* C40: a turn whose user message is empty or only whitespace is reprompted
\* when validateFormat has run, whatever the kind of the current question,
\* and stores nothing
C40_BlankAnswerNeverAccepted ==
  BlankAnswer =>
    /\ (JustRan("validateFormat") /\ ~turn.failed) => state.needsReprompt
    /\ ~RanAny(StoreNodes)
    /\ state.responses = turn.before.responses

\* the same for the questions that are not single_select
C40_BlankAnswerNeverAccepted_OtherKinds ==
  (BlankAnswer /\ QuestionBefore.type # "single_select") =>
    /\ (JustRan("validateFormat") /\ ~turn.failed) => state.needsReprompt
    /\ ~RanAny(StoreNodes)
    /\ state.responses = turn.before.responses

\* a blank answer to a single_select question was validated as its first option
C40_BlankTakenAsFirstOption ==
  /\ BlankAnswer
  /\ QuestionBefore.type = "single_select"
  /\ JustRan("validateFormat")
  /\ ~state.needsReprompt
  /\ state.translatedResponse = Some(SelectOptions[1])

\* and the turn stored it as the answer to the question
C40_BlankStored ==
  /\ BlankAnswer
  /\ InvocationOver
  /\ Ran("storeBasicResponse")
  /\ Len(state.responses) = Len(turn.before.responses) + 1
  /\ Last(state.responses).questionType = "single_select"
  /\ Last(state.responses).rawAnswer = <<" ">>

\* a blank answer to a question of another kind was reprompted
C40_BlankReprompted ==
  /\ BlankAnswer
  /\ QuestionBefore.type # "single_select"
  /\ InvocationOver
  /\ turn.steps = RepromptTurn

====
